---- MODULE Spec2Model ----
(***************************************************************************)
(* A model of the PL/0 toolchain of this repository: the lexer             *)
(* (lexical_analyzer.c), the parser (parser.c), the single-pass code       *)
(* generator (code_generator.c) and the register/stack virtual machine     *)
(* (vm.c) that runs the code it emits.                                     *)
(*                                                                         *)
(* Spec is the parser, the code generator and the VM on a token list;      *)
(* LexSpec is the lexer on a source string; VMSpec is the VM on a code     *)
(* file of its own.                                                        *)
(*                                                                         *)
(* The code generator is a recursive-descent walk over a token list.  The  *)
(* recursion is modelled with an explicit call stack: every production is  *)
(* split at the places where it calls another production, and one action   *)
(* models the code of the production between two such places.              *)
(***************************************************************************)
EXTENDS Integers, Sequences, FiniteSets, TLC

VARIABLES
    tokenList,      \* the token list handed to parser() and codeGenerator()
    cgStatus,       \* "idle" | "running" | "returned" | "crashed" | "exited"
    cgErr,          \* value returned by codeGenerator()
    tokInd,         \* _token_list_it.currentTokenInd
    currentLevel,   \* unsigned int currentLevel
    currentScope,   \* Symbol* currentScope (NullScope, or the proc_symbol it points to)
    symbolTable,    \* SymbolTable symbolTable (sequence of Symbol)
    vmCode,         \* Instruction vmCode[MAX_CODE_LENGTH] (the filled prefix)
    nextCodeIndex,  \* int nextCodeIndex
    currentReg,     \* int currentReg
    callStack,      \* activation records of the productions being executed
    nextAct,        \* number of proc_declaration() activations created so far
    err,            \* value returned by the production that returned last
    lastRet,        \* observation of the last return of a production
    lastFind,       \* observation of the last findSymbol() call
    regDeltas,      \* observation: (production, currentReg change) of returns of 0
    outFile,        \* lines printed by printEmittedCodes()
    vm,             \* VirtualMachine: RF, stack, PC, BP, SP
    vmStatus,       \* "off" | "run" | "halted" | "crashed"
    insArray,       \* ins_array of simulateVM()
    numOfIns,       \* numOfIns of simulateVM()
    vmIn,           \* remaining integers on the VM input stream
    vmOut,          \* characters written to the VM output stream
    vmSteps,        \* number of instructions executed so far
    lastIns,        \* observation of the last fetch: index, instruction,
                    \* the machine it was fetched on and the calls open then
    parStatus,      \* parser(): "idle" | "returned"
    parErr,         \* value returned by parser()
    parTok,         \* tokens parser() had consumed when program() returned
    sourceCode,     \* the characters of the source string (without its NUL)
    lexerState,     \* LexerState: lineNum, charInd, lexerError, tokenList
    lexStatus,      \* "off" | "running" | "returned" | "crashed" | "overrun"
    lexerOut,       \* LexerOut: lexerError, errorLine, tokenList
    lastLexeme,     \* observation: charInd and number of tokens where the
                    \* last lexeme began
    overread        \* observation: a read beyond the NUL has happened

cgVars == <<cgStatus, cgErr, tokInd, currentLevel, currentScope, symbolTable,
            vmCode, nextCodeIndex, currentReg, callStack, nextAct, err,
            lastRet, lastFind, regDeltas, outFile>>
vmVars == <<vm, vmStatus, insArray, numOfIns, vmIn, vmOut, vmSteps, lastIns>>
parVars == <<parStatus, parErr, parTok>>
lexVars == <<sourceCode, lexerState, lexStatus, lexerOut, lastLexeme, overread>>
vars == <<tokenList, cgVars, vmVars, parVars, lexVars>>

(***************************************************************************)
(* Program constants.                                                      *)
(***************************************************************************)
MAX_CODE_LENGTH == 500
MAX_STACK_HEIGHT == 2000
NumRegs == 16

LIT == 1
RTN == 2
LOD == 3
STO == 4
CAL == 5
INC == 6
JMP == 7
JPC == 8
SIO_WRITE == 9
SIO_READ == 10
SIO_HALT == 11
NEG == 12
ADD == 13
SUB == 14
MUL == 15
DIV == 16
ODD == 17
MOD == 18
EQL == 19
NEQ == 20
LSS == 21
LEQ == 22
GTR == 23
GEQ == 24

CONT == 0
HALT == 1

(***************************************************************************)
(* Bounds of the model.                                                    *)
(***************************************************************************)
\* The VM is stopped after this many instructions (programs may loop).
MaxVMSteps == 24

(***************************************************************************)
(* Values an indeterminate read can produce.  A Symbol's address is never  *)
(* assigned by the code generator, so reading it yields whatever the       *)
(* memory held; a read through a null or dangling Symbol* likewise.        *)
(***************************************************************************)
GarbageInts == {-7, 0, 4}
GarbageLevels == {0, 3}
GarbageTypes == {"VAR", "PROC"}

(***************************************************************************)
(* 32-bit integers.                                                        *)
(***************************************************************************)
INT_MAX == (2 ^ 30 - 1) * 2 + 1
INT_MIN == (-INT_MAX) - 1

\* a + b in 32-bit two's complement (wrapping around).
AddWrap(a, b) ==
    IF b > 0 /\ a > INT_MAX - b THEN (a - INT_MAX - 1) + (b - INT_MAX - 1)
    ELSE IF b < 0 /\ a < INT_MIN - b THEN (a + INT_MAX + 1) + (b + INT_MAX + 1)
    ELSE a + b

\* a - b in 32-bit two's complement.
SubWrap(a, b) ==
    IF b = INT_MIN THEN AddWrap(AddWrap(a, INT_MAX), 1) ELSE AddWrap(a, -b)

AddOverflows(a, b) ==
    (b > 0 /\ a > INT_MAX - b) \/ (b < 0 /\ a < INT_MIN - b)

\* C integer division and remainder (truncation toward zero), d # 0.
Abs(n) == IF n < 0 THEN -n ELSE n
CDiv(a, d) ==
    LET q == Abs(a) \div Abs(d)
    IN  IF (a < 0) = (d < 0) THEN q ELSE -q
CRem(a, d) == a - d * CDiv(a, d)

(***************************************************************************)
(* Decimal conversions: atoi() on a lexeme, printf("%d") on an int.        *)
(***************************************************************************)
Digits == <<"0", "1", "2", "3", "4", "5", "6", "7", "8", "9">>
IsDigit(c) == \E i \in 1..10 : Digits[i] = c
DigitVal(c) == (CHOOSE i \in 1..10 : Digits[i] = c) - 1

RECURSIVE AtoiAcc(_, _)
AtoiAcc(s, acc) ==
    IF s = <<>> \/ ~IsDigit(Head(s)) THEN acc
    ELSE AtoiAcc(Tail(s), acc * 10 + DigitVal(Head(s)))

\* atoi(lexeme): optional sign, then the leading run of digits (lexemes
\* have at most 11 characters; numbers of the lexer at most 5 digits).
Atoi(s) ==
    IF s # <<>> /\ Head(s) = "-" THEN -AtoiAcc(Tail(s), 0)
    ELSE IF s # <<>> /\ Head(s) = "+" THEN AtoiAcc(Tail(s), 0)
    ELSE AtoiAcc(s, 0)

RECURSIVE UDec(_)
UDec(n) ==
    IF n < 10 THEN <<Digits[n + 1]>>
    ELSE UDec(n \div 10) \o <<Digits[(n % 10) + 1]>>

\* The characters printf("%d", n) writes.
Itoa(n) == IF n < 0 THEN <<"-">> \o UDec(-n) ELSE UDec(n)

(***************************************************************************)
(* Tokens.  A token is (id, lexeme); the lexeme is the sequence of the     *)
(* characters the lexer copied into it.                                    *)
(***************************************************************************)
ReservedLexeme ==
    [ constsym     |-> <<"c", "o", "n", "s", "t">>,
      varsym       |-> <<"v", "a", "r">>,
      procsym      |-> <<"p", "r", "o", "c", "e", "d", "u", "r", "e">>,
      callsym      |-> <<"c", "a", "l", "l">>,
      beginsym     |-> <<"b", "e", "g", "i", "n">>,
      endsym       |-> <<"e", "n", "d">>,
      ifsym        |-> <<"i", "f">>,
      thensym      |-> <<"t", "h", "e", "n">>,
      elsesym      |-> <<"e", "l", "s", "e">>,
      whilesym     |-> <<"w", "h", "i", "l", "e">>,
      dosym        |-> <<"d", "o">>,
      readsym      |-> <<"r", "e", "a", "d">>,
      writesym     |-> <<"w", "r", "i", "t", "e">>,
      oddsym       |-> <<"o", "d", "d">>,
      plussym      |-> <<"+">>,
      minussym     |-> <<"-">>,
      multsym      |-> <<"*">>,
      slashsym     |-> <<"/">>,
      lparentsym   |-> <<"(">>,
      rparentsym   |-> <<")">>,
      eqsym        |-> <<"=">>,
      commasym     |-> <<",">>,
      periodsym    |-> <<".">>,
      semicolonsym |-> <<";">>,
      becomessym   |-> <<":", "=">>,
      lessym       |-> <<"<">>,
      leqsym       |-> <<"<", "=">>,
      neqsym       |-> <<"<", ">">>,
      gtrsym       |-> <<">">>,
      geqsym       |-> <<">", "=">> ]

Tok(id) == [id |-> id, lexeme |-> ReservedLexeme[id]]
Ident(name) == [id |-> "identsym", lexeme |-> name]
Number(digits) == [id |-> "numbersym", lexeme |-> digits]

\* The token getCurrentTokenFromIterator() returns past the end of the list.
NulToken == [id |-> "nulsym", lexeme |-> <<>>]

(***************************************************************************)
(* The state the code generator works on, as one record; the productions   *)
(* below are functions from such a record to the set of records the code   *)
(* can produce from it.                                                    *)
(***************************************************************************)
NullScope == [act |-> 0, level |-> 0]

Cur ==
    [ cgStatus      |-> cgStatus,
      tokInd        |-> tokInd,
      currentLevel  |-> currentLevel,
      currentScope  |-> currentScope,
      symbolTable   |-> symbolTable,
      vmCode        |-> vmCode,
      nextCodeIndex |-> nextCodeIndex,
      currentReg    |-> currentReg,
      callStack     |-> callStack,
      nextAct       |-> nextAct,
      err           |-> err,
      lastRet       |-> lastRet,
      lastFind      |-> lastFind,
      regDeltas     |-> regDeltas ]

NoFind == [name |-> <<>>, index |-> 0, tok |-> 0, open |-> FALSE]

NoRet == [fn |-> "none", err |-> 0, regIn |-> 0, regOut |-> 0,
          tokIn |-> 0, tokOut |-> 0, codeIn |-> 0, codeOut |-> 0,
          jpcRef |-> 0, thenEnd |-> -1]

\* getCurrentToken(), getCurrentTokenType(), nextToken()
getCurrentToken(c) ==
    IF c.tokInd < Len(tokenList) THEN tokenList[c.tokInd + 1] ELSE NulToken
getCurrentTokenType(c) == getCurrentToken(c).id
nextToken(c) ==
    IF c.cgStatus # "running" THEN c ELSE [c EXCEPT !.tokInd = @ + 1]

\* emit(OP, R, L, M): exit(0) when the array is full, else store and advance.
emit(c, OP, R, L, M) ==
    IF c.cgStatus # "running" THEN c
    ELSE IF c.nextCodeIndex = MAX_CODE_LENGTH
    THEN [c EXCEPT !.cgStatus = "exited"]
    ELSE [c EXCEPT
            !.vmCode = [i \in 1..(c.nextCodeIndex + 1) |->
                           IF i = c.nextCodeIndex + 1
                           THEN [op |-> OP, r |-> R, l |-> L, m |-> M]
                           ELSE @[i]],
            !.nextCodeIndex = @ + 1]

\* A generator that patches the instruction after the jump.
PatchMOffByOne(c, ref) ==
    IF c.cgStatus # "running" \/ ref + 2 > c.nextCodeIndex THEN c
    ELSE [c EXCEPT !.vmCode[ref + 2].m = c.nextCodeIndex]

\* A generator that leaves the placeholder target in place.
PatchMSkipped(c, ref) == c

\* vmCode[ref].m = nextCodeIndex
PatchM(c, ref) ==
    IF c.cgStatus # "running" THEN c
    ELSE [c EXCEPT !.vmCode[ref + 1].m = c.nextCodeIndex]

SetReg(c, v) == IF c.cgStatus # "running" THEN c ELSE [c EXCEPT !.currentReg = v]

(***************************************************************************)
(* Call stack of the recursive descent.                                    *)
(***************************************************************************)
Top(c) == c.callStack[Len(c.callStack)]

NewFrame(c, fn) ==
    [ fn |-> fn, pc |-> "start",
      regIn |-> c.currentReg, tokIn |-> c.tokInd, codeIn |-> c.nextCodeIndex,
      act |-> IF fn = "proc_declaration" THEN c.nextAct + 1 ELSE 0,
      jumpRef |-> 0, jpcRef |-> 0, thenEnd |-> -1,
      plus |-> FALSE, minus |-> FALSE, multiply |-> FALSE, divide |-> FALSE ]

SetTop(c, f) == [c EXCEPT !.callStack[Len(c.callStack)] = f]

\* The running production calls production fn and resumes at label pc.
Call(c, pc, fn) ==
    IF c.cgStatus # "running" THEN c
    ELSE [c EXCEPT
            !.callStack = Append([@ EXCEPT ![Len(@)].pc = pc], NewFrame(c, fn)),
            !.nextAct = IF fn = "proc_declaration" THEN @ + 1 ELSE @]

\* The running production returns v.
Return(c, v) ==
    IF c.cgStatus # "running" THEN c
    ELSE [c EXCEPT
            !.callStack = SubSeq(@, 1, Len(@) - 1),
            !.err = v,
            !.lastRet = [fn |-> Top(c).fn, err |-> v,
                         regIn |-> Top(c).regIn, regOut |-> c.currentReg,
                         tokIn |-> Top(c).tokIn, tokOut |-> c.tokInd,
                         codeIn |-> Top(c).codeIn, codeOut |-> c.nextCodeIndex,
                         jpcRef |-> Top(c).jpcRef, thenEnd |-> Top(c).thenEnd],
            !.regDeltas =
                IF v = 0
                THEN @ \cup {[fn |-> Top(c).fn,
                              delta |-> c.currentReg - Top(c).regIn]}
                ELSE @]

\* The process is killed (a fault on a read through a null pointer).
Crash(c) == [c EXCEPT !.cgStatus = "crashed"]

(***************************************************************************)
(* Symbol table.                                                           *)
(***************************************************************************)
SetMax(S) == CHOOSE x \in S : \A y \in S : y <= x

\* The blocks being compiled, each named by the index of its first token,
\* and the innermost of them.
OpenBlocks(c) ==
    {c.callStack[i].tokIn : i \in {j \in 1..Len(c.callStack) :
                                      c.callStack[j].fn = "block"}}
CurBlock(c) == SetMax(OpenBlocks(c))

\* addSymbol(): append a copy.  declBlock is not a field of Symbol: it
\* records the block whose declaration added the symbol.
addSymbol(c, sym) ==
    IF c.cgStatus # "running" THEN c
    ELSE [c EXCEPT !.symbolTable =
                      Append(@, sym @@ [declBlock |-> CurBlock(c)])]

\* findSymbol(): the latest entry of that name whose level is visible from
\* the scope, i.e. at most the level of the block the scope's procedure
\* encloses; 0 stands for NULL.
findSymbol(table, visible, name) ==
    LET S == {i \in 1..Len(table) :
                 table[i].name = name /\ table[i].level <= visible}
    IN  IF S = {} THEN 0 ELSE SetMax(S)

\* Whether the proc_symbol currentScope points to still exists.
ScopeLive(c) ==
    \E i \in 1..Len(c.callStack) :
        /\ c.callStack[i].fn = "proc_declaration"
        /\ c.callStack[i].act = c.currentScope.act

\* The levels findSymbol() can see through currentScope: NULL is the global
\* scope; a live proc_symbol gives its level; a proc_symbol whose function
\* has returned (or left the iteration that declared it) is a dangling
\* pointer, and the read yields the old value or whatever overwrote it.
ScopeLevels(c) ==
    IF c.currentScope = NullScope THEN {0}
    ELSE IF ScopeLive(c) THEN {c.currentScope.level + 1}
    ELSE {c.currentScope.level + 1} \cup {g + 1 : g \in GarbageLevels}

\* What the fields of findSymbol(&symbolTable, currentScope, name)-> read as.
\* A null result makes the read fault, or yield arbitrary values.
SymbolReads(c, name) ==
    UNION { LET i == findSymbol(c.symbolTable, v, name)
            IN  IF i = 0
                THEN {[fault |-> TRUE, index |-> 0, type |-> "VAR", level |-> 0,
                       address |-> 0]}
                     \cup {[fault |-> FALSE, index |-> 0, type |-> t, level |-> l,
                            address |-> a] :
                              t \in GarbageTypes, l \in GarbageLevels, a \in GarbageInts}
                ELSE {[fault |-> FALSE, index |-> i, type |-> c.symbolTable[i].type,
                       level |-> c.symbolTable[i].level,
                       address |-> c.symbolTable[i].address]}
          : v \in ScopeLevels(c) }

\* Record what a findSymbol() call returned (s is one of SymbolReads).
Found(c, name, s) ==
    [c EXCEPT !.lastFind =
        [name |-> name, index |-> s.index, tok |-> c.tokInd,
         open |-> s.index # 0 /\
                  c.symbolTable[s.index].declBlock \in OpenBlocks(c)]]

\* findLevel(): currentLevel is unsigned, so the difference is computed
\* modulo 2^32 and the test "< 0" is never true; converted to int, the
\* result is the difference itself, negative when the symbol's level is the
\* higher one.
findLevel(c, sym) ==
    LET unsignedBelowZero == FALSE
    IN  IF unsignedBelowZero THEN 0 ELSE c.currentLevel - sym.level

(***************************************************************************)
(* program()                                                               *)
(***************************************************************************)
ProgramStart(c) == {Call(c, "afterBlock", "block")}

\* A program() that emits the halt before it looks for the period.
ProgramHaltFirst(c) ==
    IF c.err # 0 THEN {Return(c, c.err)}
    ELSE IF getCurrentTokenType(c) = "periodsym"
    THEN {Return(nextToken(emit(c, SIO_HALT, 0, 0, 3)), 0)}
    ELSE {Return(emit(c, SIO_HALT, 0, 0, 3), 6)}

ProgramAfterBlock(c) ==
    IF c.err # 0 THEN {Return(c, c.err)}
    ELSE IF getCurrentTokenType(c) = "periodsym"
    THEN {Return(emit(nextToken(c), SIO_HALT, 0, 0, 3), 0)}
    ELSE {Return(c, 6)}

(***************************************************************************)
(* block()                                                                 *)
(***************************************************************************)
BlockStart(c) == {Call(c, "afterConst", "const_declaration")}

BlockAfterConst(c) ==
    IF c.err # 0 THEN {Return(c, c.err)}
    ELSE {Call(c, "afterVar", "var_declaration")}

BlockAfterVar(c) ==
    IF c.err # 0 THEN {Return(c, c.err)}
    ELSE {Call(c, "afterProc", "proc_declaration")}

\* block() going on to statement() without looking at what proc_declaration()
\* returned.
BlockAfterProcUnchecked(c) == {Call(c, "afterStatement", "statement")}

BlockAfterProc(c) ==
    IF c.err # 0 THEN {Return(c, c.err)}
    ELSE {Call(c, "afterStatement", "statement")}

BlockAfterStatement(c) ==
    IF c.err # 0 THEN {Return(c, c.err)} ELSE {Return(c, 0)}

(***************************************************************************)
(* const_declaration()                                                     *)
(***************************************************************************)
RECURSIVE ConstEntry(_)
\* ident "=" number, addSymbol(), then "," (again) or ";".  The symbol's
\* address is never assigned.
ConstEntry(c) ==
    IF getCurrentTokenType(c) # "identsym" THEN {Return(c, 3)}
    ELSE
    LET name == getCurrentToken(c).lexeme
        c1 == nextToken(c)
    IN  IF getCurrentTokenType(c1) # "eqsym" THEN {Return(c1, 2)}
        ELSE
        LET c2 == nextToken(c1)
        IN  IF getCurrentTokenType(c2) # "numbersym" THEN {Return(c2, 1)}
            ELSE
            UNION {
                LET c3 == addSymbol(nextToken(c2),
                                    [name |-> name, type |-> "CONST",
                                     level |-> c.currentLevel,
                                     value |-> Atoi(getCurrentToken(c2).lexeme),
                                     address |-> g])
                IN  IF getCurrentTokenType(c3) = "commasym"
                    THEN ConstEntry(nextToken(c3))
                    ELSE IF getCurrentTokenType(c3) = "semicolonsym"
                    THEN {Return(nextToken(c3), 0)}
                    ELSE {Return(c3, 4)}
                : g \in GarbageInts }

ConstDeclaration(c) ==
    IF getCurrentTokenType(c) = "constsym"
    THEN ConstEntry(nextToken(c))
    ELSE {Return(c, 0)}

(***************************************************************************)
(* var_declaration()                                                       *)
(***************************************************************************)
RECURSIVE VarEntry(_)
\* ident, emit(INC, 0, 0, 2), addSymbol(), then "," (again) or ";".  The
\* symbol's address is never assigned.
VarEntry(c) ==
    IF getCurrentTokenType(c) # "identsym" THEN {Return(c, 3)}
    ELSE
    UNION {
        LET c1 == addSymbol(emit(nextToken(c), INC, 0, 0, 2),
                            [name |-> getCurrentToken(c).lexeme, type |-> "VAR",
                             level |-> c.currentLevel, value |-> 0,
                             address |-> g])
        IN  IF getCurrentTokenType(c1) = "commasym"
            THEN VarEntry(nextToken(c1))
            ELSE IF getCurrentTokenType(c1) = "semicolonsym"
            THEN {Return(nextToken(c1), 0)}
            ELSE {Return(c1, 4)}
        : g \in GarbageInts }

VarDeclaration(c) ==
    IF getCurrentTokenType(c) = "varsym"
    THEN VarEntry(nextToken(c))
    ELSE {Return(c, 0)}

(***************************************************************************)
(* proc_declaration()                                                      *)
(***************************************************************************)
\* The head of the while loop, up to the call of block().
ProcLoop(c) ==
    IF getCurrentTokenType(c) # "procsym" THEN {Return(c, 0)}
    ELSE
    LET c1 == [nextToken(c) EXCEPT
                  !.currentScope = [act |-> Top(c).act, level |-> c.currentLevel]]
    IN  IF getCurrentTokenType(c1) # "identsym" THEN {Return(c1, 3)}
        ELSE
        UNION {
            LET c2 == addSymbol(nextToken(c1),
                                [name |-> getCurrentToken(c1).lexeme,
                                 type |-> "PROC", level |-> c.currentLevel,
                                 value |-> 0, address |-> g])
            IN  IF getCurrentTokenType(c2) # "semicolonsym" THEN {Return(c2, 5)}
                ELSE
                LET c3 == [nextToken(c2) EXCEPT
                              !.currentLevel = @ + 1]
                    c4 == SetTop(c3, [Top(c3) EXCEPT !.jumpRef = c3.nextCodeIndex])
                    c5 == emit(emit(c4, JMP, 0, 0, 0), INC, 0, 0, 4)
                IN  {Call(c5, "afterBlock", "block")}
            : g \in GarbageInts }

ProcStart(c) == ProcLoop(c)

\* After block(): restore the level, patch the JMP, ";" and loop.
ProcAfterBlock(c) ==
    IF c.err # 0 THEN {Return(c, c.err)}
    ELSE
    LET c1 == [c EXCEPT !.currentLevel = @ - 1]
        c2 == PatchM(c1, Top(c1).jumpRef)
    IN  IF getCurrentTokenType(c2) = "semicolonsym"
        THEN ProcLoop(nextToken(c2))
        ELSE {Return(c2, 5)}

\* statement() looking for ":=" before it looks at the kind of the symbol.
StmtIdentBecomesFirst(c0) ==
    UNION {
        LET c == Found(c0, getCurrentToken(c0).lexeme, s)
            c1 == nextToken(c)
        IN
        IF s.fault THEN {Crash(c)}
        ELSE IF getCurrentTokenType(c1) # "becomessym" THEN {Return(c1, 7)}
        ELSE IF s.type # "VAR" THEN {Return(c, 16)}
        ELSE {Call(nextToken(c1), "afterAssignExpr", "expression")}
        : s \in SymbolReads(c0, getCurrentToken(c0).lexeme) }

(***************************************************************************)
(* statement()                                                             *)
(***************************************************************************)
\* ident ...: the symbol must be a VAR; ":=" ; then expression().
StmtIdent(c0) ==
    UNION {
        LET c == Found(c0, getCurrentToken(c0).lexeme, s)
        IN
        IF s.fault THEN {Crash(c)}
        ELSE IF s.type # "VAR" THEN {Return(c, 16)}
        ELSE
        LET c1 == nextToken(c)
        IN  IF getCurrentTokenType(c1) = "becomessym"
            THEN {Call(nextToken(c1), "afterAssignExpr", "expression")}
            ELSE {Return(c1, 7)}
        : s \in SymbolReads(c0, getCurrentToken(c0).lexeme) }

\* After the expression of an assignment: STO with the level and address of
\* the symbol named by the CURRENT token's lexeme, then currentReg--.
StmtAfterAssignExpr(c) ==
    IF c.err # 0 THEN {Return(c, c.err)}
    ELSE
    UNION {
        LET cf == Found(c, getCurrentToken(c).lexeme, s)
        IN
        IF s.fault THEN {Crash(cf)}
        ELSE
        LET c1 == emit(cf, STO, c.currentReg, findLevel(c, s), s.address)
        IN  {Return(SetReg(c1, c1.currentReg - 1), 0)}
        : s \in SymbolReads(c, getCurrentToken(c).lexeme) }

\* "call" ident: CAL with l = the symbol's address and m = 4.
StmtCall(c) ==
    LET c1 == nextToken(c)
    IN  IF getCurrentTokenType(c1) # "identsym" THEN {Return(c1, 8)}
        ELSE
        UNION {
            LET cf == Found(c1, getCurrentToken(c1).lexeme, s)
            IN
            IF s.fault THEN {Crash(cf)}
            ELSE IF s.type = "PROC"
            THEN {Return(nextToken(emit(cf, CAL, 0, s.address, 4)), 0)}
            ELSE {Return(cf, 7)}
            : s \in SymbolReads(c1, getCurrentToken(c1).lexeme) }

StmtBegin(c) == {Call(nextToken(c), "afterBeginStmt", "statement")}

\* After a statement of a begin ... end list.
StmtAfterBeginStmt(c) ==
    IF c.err # 0 THEN {Return(c, c.err)}
    ELSE IF getCurrentTokenType(c) = "semicolonsym"
    THEN {Call(nextToken(c), "afterBeginStmt", "statement")}
    ELSE IF getCurrentTokenType(c) = "endsym"
    THEN {Return(nextToken(c), 0)}
    ELSE {Return(c, 10)}

StmtIf(c) == {Call(nextToken(c), "afterIfCond", "condition")}

StmtAfterIfCond(c) ==
    IF c.err # 0 THEN {Return(c, c.err)}
    ELSE IF getCurrentTokenType(c) # "thensym" THEN {Return(c, 9)}
    ELSE
    LET c1 == nextToken(c)
        c2 == SetTop(c1, [Top(c1) EXCEPT !.jpcRef = c1.nextCodeIndex])
        c3 == emit(c2, JPC, c2.currentReg, 0, 0)
    IN  {Call(c3, "afterThen", "statement")}

\* After the statement of "then": an "else" part, if any, then the patch
\* of the JPC.  (thenEnd observes where the code of that statement ends.)
StmtAfterThen(c0) ==
    IF c0.err # 0 THEN {Return(c0, c0.err)}
    ELSE
    LET c == SetTop(c0, [Top(c0) EXCEPT !.thenEnd = c0.nextCodeIndex])
    IN  IF getCurrentTokenType(c) = "elsesym"
        THEN {Call(nextToken(c), "afterElse", "statement")}
        ELSE {Return(PatchM(c, Top(c).jpcRef), 0)}

StmtAfterElse(c) ==
    IF c.err # 0 THEN {Return(c, c.err)}
    ELSE {Return(PatchM(c, Top(c).jpcRef), 0)}

StmtWhile(c) == {Call(nextToken(c), "afterWhileCond", "condition")}

StmtAfterWhileCond(c) ==
    IF c.err # 0 THEN {Return(c, c.err)}
    ELSE
    LET c1 == SetTop(c, [Top(c) EXCEPT !.jpcRef = c.nextCodeIndex])
        c2 == emit(c1, JPC, c1.currentReg, 0, 0)
    IN  IF getCurrentTokenType(c2) = "dosym"
        THEN {Call(nextToken(c2), "afterWhileBody", "statement")}
        ELSE {Return(c2, 11)}

StmtAfterWhileBody(c) ==
    IF c.err # 0 THEN {Return(c, c.err)}
    ELSE {Return(PatchM(c, Top(c).jpcRef), 0)}

\* "read" ident: SIO_READ, then STO, then currentReg--.
StmtRead(c) ==
    LET c1 == emit(nextToken(c), SIO_READ, c.currentReg, 0, 2)
    IN  IF getCurrentTokenType(c1) # "identsym" THEN {Return(c1, 3)}
        ELSE
        UNION {
            LET cf == Found(c1, getCurrentToken(c1).lexeme, s)
            IN
            IF s.fault THEN {Crash(cf)}
            ELSE
            LET c2 == emit(cf, STO, c1.currentReg, findLevel(c1, s), s.address)
            IN  {Return(nextToken(SetReg(c2, c2.currentReg - 1)), 0)}
            : s \in SymbolReads(c1, getCurrentToken(c1).lexeme) }

\* A "write" that takes a number as well as an identifier.
StmtWriteAnyOperand(c) ==
    LET c1 == nextToken(c)
    IN  IF getCurrentTokenType(c1) \in {"identsym", "numbersym"}
        THEN {Return(nextToken(emit(c1, SIO_WRITE, c1.currentReg, 0, 1)), 0)}
        ELSE {Return(c1, 3)}

\* "write" ident: SIO_WRITE of the current register.
StmtWrite(c) ==
    LET c1 == nextToken(c)
    IN  IF getCurrentTokenType(c1) = "identsym"
        THEN {Return(nextToken(emit(c1, SIO_WRITE, c1.currentReg, 0, 1)), 0)}
        ELSE {Return(c1, 3)}

StatementStart(c) ==
    CASE getCurrentTokenType(c) = "identsym" -> StmtIdent(c)
      [] getCurrentTokenType(c) = "callsym"  -> StmtCall(c)
      [] getCurrentTokenType(c) = "beginsym" -> StmtBegin(c)
      [] getCurrentTokenType(c) = "ifsym"    -> StmtIf(c)
      [] getCurrentTokenType(c) = "whilesym" -> StmtWhile(c)
      [] getCurrentTokenType(c) = "readsym"  -> StmtRead(c)
      [] getCurrentTokenType(c) = "writesym" -> StmtWrite(c)
      [] OTHER -> {Return(c, 0)}

(***************************************************************************)
(* condition()                                                             *)
(***************************************************************************)
RelOp(id) ==
    CASE id = "eqsym"  -> EQL
      [] id = "neqsym" -> NEQ
      [] id = "lessym" -> LSS
      [] id = "leqsym" -> LEQ
      [] id = "gtrsym" -> GTR
      [] id = "geqsym" -> GEQ
      [] OTHER -> 0

ConditionStart(c) ==
    IF getCurrentTokenType(c) = "oddsym"
    THEN {Call(nextToken(c), "afterOddExpr", "expression")}
    ELSE {Call(c, "afterLhs", "expression")}

CondAfterOddExpr(c) ==
    IF c.err # 0 THEN {Return(c, c.err)}
    ELSE
    LET c1 == emit(c, ODD, c.currentReg - 1, c.currentReg - 1, c.currentReg)
    IN  {Return(SetReg(c1, c1.currentReg - 1), 0)}

\* After the left expression: the comparison is emitted here, before the
\* right expression is parsed.
CondAfterLhs(c) ==
    IF c.err # 0 THEN {Return(c, c.err)}
    ELSE IF RelOp(getCurrentTokenType(c)) = 0 THEN {Return(c, 12)}
    ELSE
    LET c1 == emit(c, RelOp(getCurrentTokenType(c)),
                   c.currentReg - 1, c.currentReg - 1, c.currentReg)
        c2 == nextToken(SetReg(c1, c1.currentReg - 1))
    IN  {Call(c2, "afterRhs", "expression")}

CondAfterRhs(c) ==
    IF c.err # 0 THEN {Return(c, c.err)} ELSE {Return(c, 0)}

(***************************************************************************)
(* expression()                                                            *)
(***************************************************************************)
ExpressionStart(c) ==
    IF getCurrentTokenType(c) = "plussym"
    THEN {Call(nextToken(c), "afterFirstTerm", "term")}
    ELSE IF getCurrentTokenType(c) = "minussym"
    THEN {Call(SetTop(nextToken(c), [Top(c) EXCEPT !.minus = TRUE]),
               "afterFirstTerm", "term")}
    ELSE {Call(c, "afterFirstTerm", "term")}

\* The head of the while loop over "+" and "-".
ExprLoop(c) ==
    IF getCurrentTokenType(c) = "plussym"
    THEN {Call(SetTop(nextToken(c), [Top(c) EXCEPT !.plus = TRUE]),
               "afterLoopTerm", "term")}
    ELSE IF getCurrentTokenType(c) = "minussym"
    THEN {Call(SetTop(nextToken(c), [Top(c) EXCEPT !.minus = TRUE]),
               "afterLoopTerm", "term")}
    ELSE {Return(c, 0)}

\* After the first term: NEG and currentReg-- for a leading "-".
ExprAfterFirstTerm(c) ==
    IF c.err # 0 THEN {Return(c, c.err)}
    ELSE IF Top(c).minus
    THEN LET c1 == emit(c, NEG, c.currentReg - 1, c.currentReg - 1, c.currentReg)
             c2 == SetReg(c1, c1.currentReg - 1)
         IN  ExprLoop(SetTop(c2, [Top(c2) EXCEPT !.minus = FALSE]))
    ELSE ExprLoop(c)

ExprAfterLoopTerm(c) ==
    IF c.err # 0 THEN {Return(c, c.err)}
    ELSE IF Top(c).minus
    THEN LET c0 == SetTop(c, [Top(c) EXCEPT !.minus = FALSE])
             c1 == emit(c0, SUB, c.currentReg - 1, c.currentReg - 1, c.currentReg)
         IN  ExprLoop(SetReg(c1, c1.currentReg - 1))
    ELSE IF Top(c).plus
    THEN LET c0 == SetTop(c, [Top(c) EXCEPT !.plus = FALSE])
             c1 == emit(c0, ADD, c.currentReg - 1, c.currentReg - 1, c.currentReg)
         IN  ExprLoop(SetReg(c1, c1.currentReg - 1))
    ELSE ExprLoop(c)

(***************************************************************************)
(* term()                                                                  *)
(***************************************************************************)
TermStart(c) == {Call(c, "afterFactor", "factor")}

\* The head of the while loop over "*" and "/".
TermLoop(c) ==
    IF getCurrentTokenType(c) = "multsym"
    THEN {Call(SetTop(nextToken(c), [Top(c) EXCEPT !.multiply = TRUE]),
               "afterLoopFactor", "factor")}
    ELSE IF getCurrentTokenType(c) = "slashsym"
    THEN {Call(SetTop(nextToken(c), [Top(c) EXCEPT !.divide = TRUE]),
               "afterLoopFactor", "factor")}
    ELSE {Return(c, 0)}

TermAfterFactor(c) ==
    IF c.err # 0 THEN {Return(c, c.err)} ELSE TermLoop(c)

TermAfterLoopFactor(c) ==
    IF c.err # 0 THEN {Return(c, c.err)}
    ELSE IF Top(c).multiply
    THEN LET c0 == SetTop(c, [Top(c) EXCEPT !.multiply = FALSE])
             c1 == emit(c0, MUL, c.currentReg - 1, c.currentReg - 1, c.currentReg)
         IN  TermLoop(SetReg(c1, c1.currentReg - 1))
    ELSE IF Top(c).divide
    THEN LET c0 == SetTop(c, [Top(c) EXCEPT !.divide = FALSE])
             c1 == emit(c0, DIV, c.currentReg - 1, c.currentReg - 1, c.currentReg)
         IN  TermLoop(SetReg(c1, c1.currentReg - 1))
    ELSE TermLoop(c)

(***************************************************************************)
(* factor()                                                                *)
(***************************************************************************)
\* ident: LOD with the symbol's level difference and address, currentReg++.
FactorIdent(c) ==
    UNION {
        LET cf == Found(c, getCurrentToken(c).lexeme, s)
        IN
        IF s.fault THEN {Crash(cf)}
        ELSE
        LET c1 == emit(cf, LOD, c.currentReg, findLevel(c, s), s.address)
        IN  {Return(nextToken(SetReg(c1, c1.currentReg + 1)), 0)}
        : s \in SymbolReads(c, getCurrentToken(c).lexeme) }

\* number: LIT with atoi of the lexeme, currentReg++.
FactorNumber(c) ==
    LET c1 == emit(c, LIT, c.currentReg, 0, Atoi(getCurrentToken(c).lexeme))
    IN  {Return(nextToken(SetReg(c1, c1.currentReg + 1)), 0)}

FactorStart(c) ==
    IF getCurrentTokenType(c) = "identsym" THEN FactorIdent(c)
    ELSE IF getCurrentTokenType(c) = "numbersym" THEN FactorNumber(c)
    ELSE IF getCurrentTokenType(c) = "lparentsym"
    THEN {Call(nextToken(c), "afterExpr", "expression")}
    ELSE {Return(c, 14)}

FactorAfterExpr(c) ==
    IF c.err # 0 THEN {Return(c, c.err)}
    ELSE IF getCurrentTokenType(c) # "rparentsym" THEN {Return(c, 13)}
    ELSE {Return(nextToken(c), 0)}

(***************************************************************************)
(* printEmittedCodes() and readInstructions(): the emitted code goes       *)
(* through a text file, one line "op r l m" per instruction.               *)
(***************************************************************************)
PrintLine(ins) == <<Itoa(ins.op), Itoa(ins.r), Itoa(ins.l), Itoa(ins.m)>>

printEmittedCodes(code, n) == [i \in 1..n |-> PrintLine(code[i])]

ScanLine(line) ==
    [op |-> Atoi(line[1]), r |-> Atoi(line[2]),
     l |-> Atoi(line[3]), m |-> Atoi(line[4])]

readInstructions(file) == [i \in 1..Len(file) |-> ScanLine(file[i])]

(***************************************************************************)
(* The virtual machine.  The stack is kept as the function from the        *)
(* indices of its nonzero cells to their values; every other cell is 0.    *)
(***************************************************************************)
initVM ==
    [RF |-> [i \in 0..(NumRegs - 1) |-> 0],
     stack |-> <<>>,
     BP |-> 1, SP |-> 0, PC |-> 0]

InStack(i) == i \in 0..(MAX_STACK_HEIGHT - 1)
InRegs(r) == r \in 0..(NumRegs - 1)

StackGet(st, i) == IF i \in DOMAIN st THEN st[i] ELSE 0
StackPut(st, i, x) ==
    LET D == IF x = 0 THEN DOMAIN st \ {i} ELSE DOMAIN st \cup {i}
    IN  [j \in D |-> IF j = i THEN x ELSE st[j]]

\* A value read, or a fault of the process.
Val(x) == [fault |-> FALSE, val |-> x]
Fault == [fault |-> TRUE, val |-> 0]

\* stack[i] as an rvalue: outside the array the read faults or yields
\* whatever lies there.
StackRead(v, i) ==
    IF InStack(i) THEN {Val(StackGet(v.stack, i))}
    ELSE {Fault} \cup {Val(g) : g \in GarbageInts}

\* RF[r] as an rvalue.
RegRead(v, r) ==
    IF InRegs(r) THEN {Val(v.RF[r])}
    ELSE {Fault} \cup {Val(g) : g \in GarbageInts}

\* Outcomes of an instruction: the machine after it and CONT, HALT or a
\* fault of the process.
Out(v, status) == [vm |-> v, status |-> status]

\* RF[r] = x: outside the register file the store faults or lands on
\* memory the model does not track.
RegWrite(v, r, x) ==
    IF InRegs(r) THEN {Out([v EXCEPT !.RF[r] = x], "cont")}
    ELSE {Out(v, "fault"), Out(v, "cont")}

\* stack[i] = x
StackWrite(v, i, x) ==
    IF InStack(i) THEN {Out([v EXCEPT !.stack = StackPut(@, i, x)], "cont")}
    ELSE {Out(v, "fault"), Out(v, "cont")}

RECURSIVE getBasePointer(_, _, _)
\* getBasePointer(stack, currentBP, L): follow stack[b1 + 1] L times.
getBasePointer(v, b1, L) ==
    IF L > 0
    THEN UNION { IF x.fault THEN {Fault} ELSE getBasePointer(v, x.val, L - 1)
                 : x \in StackRead(v, b1 + 1) }
    ELSE {Val(b1)}

\* Signed arithmetic of C on int: the value, or on overflow (undefined)
\* the wrapped value or any other.
CAdd(a, b) ==
    IF AddOverflows(a, b) THEN {AddWrap(a, b)} \cup GarbageInts ELSE {a + b}
CSub(a, b) ==
    IF b = INT_MIN \/ AddOverflows(a, -b)
    THEN {SubWrap(a, b)} \cup GarbageInts ELSE {a - b}
CMul(a, b) ==
    IF a = 0 \/ b = 0 THEN {0}
    ELSE IF a = INT_MIN \/ b = INT_MIN
    THEN IF a = 1 \/ b = 1 THEN {INT_MIN} ELSE GarbageInts
    ELSE IF Abs(a) > INT_MAX \div Abs(b) THEN GarbageInts
    ELSE {a * b}

Bool(b) == IF b THEN 1 ELSE 0

\* The values RF[l] op RF[m] can yield for the two-operand opcodes.
BinaryValue(op, a, b) ==
    CASE op = ADD -> CAdd(a, b)
      [] op = SUB -> CSub(a, b)
      [] op = MUL -> CMul(a, b)
      [] op = EQL -> {Bool(a = b)}
      [] op = NEQ -> {Bool(a # b)}
      [] op = LSS -> {Bool(a < b)}
      [] op = LEQ -> {Bool(a <= b)}
      [] op = GTR -> {Bool(a > b)}
      [] op = GEQ -> {Bool(a >= b)}

\* RF[r] = RF[l] op RF[m] for the two-operand opcodes.
Binary(v, ins) ==
    UNION { UNION { IF a.fault \/ b.fault THEN {Out(v, "fault")}
                    ELSE UNION {RegWrite(v, ins.r, x) :
                                   x \in BinaryValue(ins.op, a.val, b.val)}
                    : b \in RegRead(v, ins.m) }
            : a \in RegRead(v, ins.l) }

\* RF[r] = RF[l] / RF[m] and RF[r] = RF[l] % RF[m]: a zero divisor (and
\* INT_MIN / -1) traps, or, on machines whose divide instruction does not
\* trap, yields some value.
Division(v, ins) ==
    UNION { UNION { IF a.fault \/ b.fault THEN {Out(v, "fault")}
                    ELSE IF b.val = 0 \/ (a.val = INT_MIN /\ b.val = -1)
                    THEN {Out(v, "fault")}
                         \cup UNION {RegWrite(v, ins.r, g) : g \in GarbageInts}
                    ELSE RegWrite(v, ins.r,
                                  IF ins.op = DIV THEN CDiv(a.val, b.val)
                                  ELSE CRem(a.val, b.val))
                    : b \in RegRead(v, ins.m) }
            : a \in RegRead(v, ins.l) }

\* A RTN that takes PC and BP from each other's cell.
ExecRTNSwapped(v) ==
    LET sp == SubWrap(v.BP, 1)
    IN  UNION { UNION { IF bp.fault \/ pc.fault THEN {Out(v, "fault")}
                        ELSE {Out([v EXCEPT !.SP = sp, !.BP = bp.val,
                                            !.PC = pc.val], "cont")}
                        : pc \in StackRead(v, sp + 3) }
                : bp \in StackRead(v, sp + 4) }

ExecRTN(v) ==
    LET sp == SubWrap(v.BP, 1)
    IN  UNION { UNION { IF bp.fault \/ pc.fault THEN {Out(v, "fault")}
                        ELSE {Out([v EXCEPT !.SP = sp, !.BP = bp.val,
                                            !.PC = pc.val], "cont")}
                        : pc \in StackRead(v, sp + 4) }
                : bp \in StackRead(v, sp + 3) }

ExecLOD(v, ins) ==
    UNION { IF b.fault THEN {Out(v, "fault")}
            ELSE UNION { IF x.fault THEN {Out(v, "fault")}
                         ELSE RegWrite(v, ins.r, x.val)
                         : x \in StackRead(v, b.val + ins.m) }
            : b \in getBasePointer(v, v.BP, ins.l) }

ExecSTO(v, ins) ==
    UNION { UNION { IF b.fault \/ x.fault THEN {Out(v, "fault")}
                    ELSE StackWrite(v, b.val + ins.m, x.val)
                    : x \in RegRead(v, ins.r) }
            : b \in getBasePointer(v, v.BP, ins.l) }

\* The four stores of CAL, then BP and PC.
ExecCAL(v, ins) ==
    UNION { IF b.fault THEN {Out(v, "fault")}
            ELSE
            UNION { UNION { UNION { UNION {
                IF "fault" \in {o1.status, o2.status, o3.status, o4.status}
                THEN {Out(v, "fault")}
                ELSE {Out([o4.vm EXCEPT !.BP = AddWrap(v.SP, 1), !.PC = ins.m],
                          "cont")}
                : o4 \in StackWrite(o3.vm, v.SP + 4, v.PC) }
                : o3 \in StackWrite(o2.vm, v.SP + 3, v.BP) }
                : o2 \in StackWrite(o1.vm, v.SP + 2, b.val) }
                : o1 \in StackWrite(v, v.SP + 1, 0) }
            : b \in getBasePointer(v, v.BP, ins.l) }

\* A JPC that jumps whatever the register holds.
ExecJPCAlways(v, ins) ==
    UNION { IF x.fault THEN {Out(v, "fault")}
            ELSE {Out([v EXCEPT !.PC = ins.m], "cont")}
            : x \in RegRead(v, ins.r) }

ExecJPC(v, ins) ==
    UNION { IF x.fault THEN {Out(v, "fault")}
            ELSE IF x.val = 0 THEN {Out([v EXCEPT !.PC = ins.m], "cont")}
            ELSE {Out(v, "cont")}
            : x \in RegRead(v, ins.r) }

\* Variant of case 11: the switch is left by break, and CONT is returned.
ExecHALTContinues(v) == {Out(v, "cont")}

\* case 11: return HALT.
ExecHALT(v) == {Out(v, "halt")}

\* executeInstruction() for the opcodes that do no input or output.
ExecutePure(v, ins) ==
    CASE ins.op = LIT -> RegWrite(v, ins.r, ins.m)
      [] ins.op = RTN -> ExecRTN(v)
      [] ins.op = LOD -> ExecLOD(v, ins)
      [] ins.op = STO -> ExecSTO(v, ins)
      [] ins.op = CAL -> ExecCAL(v, ins)
      [] ins.op = INC -> {Out([v EXCEPT !.SP = AddWrap(v.SP, ins.m)], "cont")}
      [] ins.op = JMP -> {Out([v EXCEPT !.PC = ins.m], "cont")}
      [] ins.op = JPC -> ExecJPC(v, ins)
      [] ins.op = SIO_HALT -> ExecHALT(v)
      [] ins.op = NEG ->
            UNION { IF a.fault THEN {Out(v, "fault")}
                    ELSE UNION {RegWrite(v, ins.r, x) : x \in CSub(0, a.val)}
                    : a \in RegRead(v, ins.l) }
      [] ins.op = ADD -> Binary(v, ins)
      [] ins.op = SUB -> Binary(v, ins)
      [] ins.op = MUL -> Binary(v, ins)
      [] ins.op = DIV -> Division(v, ins)
      [] ins.op = ODD ->
            UNION { IF a.fault THEN {Out(v, "fault")}
                    ELSE RegWrite(v, ins.r, CRem(a.val, 2))
                    : a \in RegRead(v, ins.r) }
      [] ins.op = MOD -> Division(v, ins)
      [] ins.op = EQL -> Binary(v, ins)
      [] ins.op = NEQ -> Binary(v, ins)
      [] ins.op = LSS -> Binary(v, ins)
      [] ins.op = LEQ -> Binary(v, ins)
      [] ins.op = GTR -> Binary(v, ins)
      [] ins.op = GEQ -> Binary(v, ins)
      [] OTHER -> {Out(v, "halt")}

\* executeInstruction(): the outcomes [vm, status, vmIn, vmOut].
executeInstruction(v, ins, inp, out) ==
    IF ins.op = SIO_WRITE
    THEN { [vm |-> v, status |-> IF x.fault THEN "fault" ELSE "cont",
            vmIn |-> inp,
            vmOut |-> IF x.fault THEN out ELSE out \o Itoa(x.val)]
           : x \in RegRead(v, ins.r) }
    ELSE IF ins.op = SIO_READ
    THEN IF inp = <<>>
         THEN {[vm |-> v, status |-> "cont", vmIn |-> inp, vmOut |-> out]}
         ELSE { [vm |-> o.vm, status |-> o.status, vmIn |-> Tail(inp), vmOut |-> out]
                : o \in RegWrite(v, ins.r, Atoi(Head(inp))) }
    ELSE { [vm |-> o.vm, status |-> o.status, vmIn |-> inp, vmOut |-> out]
           : o \in ExecutePure(v, ins) }

\* The instruction fetched at PC: past the instructions read, ins_array is
\* uninitialised memory (or not the array at all).
IllegalIns == [op |-> 0, r |-> 0, l |-> 0, m |-> 0]
Fetch(code, n, pc) ==
    IF pc \in 0..(n - 1) THEN {[fault |-> FALSE, ins |-> code[pc + 1]]}
    ELSE {[fault |-> TRUE, ins |-> IllegalIns], [fault |-> FALSE, ins |-> IllegalIns]}

\* The calls that are open once the instruction observed in last has been
\* executed: a CAL opens one, with the SP, the BP and the (incremented) PC
\* it was executed on; a RTN closes the latest.
FramesAfter(last) ==
    IF last.index < 0 THEN <<>>
    ELSE IF last.ins.op = CAL
    THEN Append(last.frames, [s |-> last.vm.SP, b |-> last.vm.BP,
                              p |-> last.vm.PC + 1])
    ELSE IF last.ins.op = RTN /\ last.frames # <<>>
    THEN SubSeq(last.frames, 1, Len(last.frames) - 1)
    ELSE last.frames

RECURSIVE dumpStack(_, _, _)
\* dumpStack(out, stack, sp, bp) recurses along stack[bp + 2] until bp is 0
\* or 1.  The outcomes: it returns ("cont"), or it never does and the
\* process dies ("fault"); a read outside the stack can give either.  (What
\* it prints is not modelled.)
dumpStack(v, bp, seen) ==
    IF bp = 0 \/ bp = 1 THEN {"cont"}
    ELSE IF bp \in seen THEN {"fault"}
    ELSE IF ~InStack(bp + 2) THEN {"cont", "fault"}
    ELSE dumpStack(v, StackGet(v.stack, bp + 2), seen \cup {bp})

(***************************************************************************)
(* The token lists the model runs the toolchain on: what the lexer         *)
(* produces for the source texts quoted in the comments.                   *)
(***************************************************************************)
K(id) == <<Tok(id)>>
Id(ch) == <<Ident(<<ch>>)>>
Num(digits) == <<Number(digits)>>
Semi == K("semicolonsym")
Period == K("periodsym")

Assign(name, e) == Id(name) \o K("becomessym") \o e
CallS(name) == K("callsym") \o Id(name)
ReadS(name) == K("readsym") \o Id(name)
WriteS(name) == K("writesym") \o Id(name)
Begin2(s1, s2) == K("beginsym") \o s1 \o Semi \o s2 \o K("endsym")
IfThen(cnd, s1) == K("ifsym") \o cnd \o K("thensym") \o s1
IfThenElse(cnd, s1, s2) == IfThen(cnd, s1) \o K("elsesym") \o s2
WhileDo(cnd, s1) == K("whilesym") \o cnd \o K("dosym") \o s1
Rel(e1, op, e2) == e1 \o K(op) \o e2
OddC(e) == K("oddsym") \o e
Paren(e) == K("lparentsym") \o e \o K("rparentsym")
VarDecl1(a) == K("varsym") \o Id(a) \o Semi
VarDecl2(a, b) == K("varsym") \o Id(a) \o K("commasym") \o Id(b) \o Semi
ConstDecl1(a, n) == K("constsym") \o Id(a) \o K("eqsym") \o Num(n) \o Semi
ConstDecl2(a, n, b, m) ==
    K("constsym") \o Id(a) \o K("eqsym") \o Num(n) \o K("commasym")
        \o Id(b) \o K("eqsym") \o Num(m) \o Semi
ProcDecl(name, body) == K("procsym") \o Id(name) \o Semi \o body \o Semi

\* Literals of one to five digits.
Literals ==
    { <<"5">>, <<"0">>, <<"4", "2">>, <<"0", "0", "7">>,
      <<"9", "9", "9", "9", "9">> }

\* var x; begin x := k; write x end.
Scenario1(k) ==
    VarDecl1("x") \o Begin2(Assign("x", Num(k)), WriteS("x")) \o Period

\* const k = 7; var x; begin x := k + 3; write x end.
Scenario2 ==
    ConstDecl1("k", <<"7">>) \o VarDecl1("x")
        \o Begin2(Assign("x", Id("k") \o K("plussym") \o Num(<<"3">>)), WriteS("x"))
        \o Period

\* var x; begin read x; write x end.
Scenario3 == VarDecl1("x") \o Begin2(ReadS("x"), WriteS("x")) \o Period

\* var i; begin i := 0; while i < 3 do begin write i; i := i + 1 end end.
Scenario4 ==
    VarDecl1("i")
        \o Begin2(Assign("i", Num(<<"0">>)),
                  WhileDo(Rel(Id("i"), "lessym", Num(<<"3">>)),
                          Begin2(WriteS("i"),
                                 Assign("i", Id("i") \o K("plussym") \o Num(<<"1">>)))))
        \o Period

\* var x; begin x := 10; if odd x then write x else write 0 end.
Scenario5 ==
    VarDecl1("x")
        \o Begin2(Assign("x", Num(<<"1", "0">>)),
                  IfThenElse(OddC(Id("x")), WriteS("x"),
                             K("writesym") \o Num(<<"0">>)))
        \o Period

\* procedure p; var y; begin y := 1; write y end; begin call p end.
Scenario6 ==
    ProcDecl("p", VarDecl1("y") \o Begin2(Assign("y", Num(<<"1">>)), WriteS("y")))
        \o K("beginsym") \o CallS("p") \o K("endsym") \o Period

Scenarios ==
    {Scenario1(k) : k \in Literals}
        \cup {Scenario2, Scenario3, Scenario4, Scenario5, Scenario6}

\* Expressions over the variable x and literals.
X == Id("x")
N3 == Num(<<"3">>)
Expressions ==
    { N3, X,
      K("minussym") \o N3,
      K("plussym") \o X,
      X \o K("plussym") \o N3,
      X \o K("minussym") \o N3 \o K("multsym") \o X,
      Paren(X \o K("plussym") \o N3) \o K("slashsym") \o N3,
      K("minussym") \o X \o K("minussym") \o N3 }

RelOps == {"eqsym", "neqsym", "lessym", "leqsym", "gtrsym", "geqsym"}
Conditions == {OddC(X)} \cup {Rel(X, op, N3) : op \in RelOps}

SimpleStatements ==
    {Assign("x", N3), CallS("p"), ReadS("x"), WriteS("x"), <<>>}

Statements ==
    {Assign("x", e) : e \in Expressions}
        \cup SimpleStatements
        \cup {Begin2(s1, s2) : s1 \in SimpleStatements, s2 \in {WriteS("x"), CallS("p"), <<>>}}
        \cup {IfThen(cnd, WriteS("x")) : cnd \in Conditions}
        \cup {IfThenElse(cnd, s1, CallS("p")) :
                 cnd \in {OddC(X), Rel(X, "lessym", N3)},
                 s1 \in {WriteS("x"), Assign("x", N3)}}
        \cup {WhileDo(cnd, s1) :
                 cnd \in {OddC(X), Rel(X, "gtrsym", N3)},
                 s1 \in {WriteS("x"), Begin2(WriteS("x"), ReadS("x"))}}

\* var x; procedure p; ; S.
StatementPrograms ==
    {VarDecl1("x") \o ProcDecl("p", <<>>) \o st \o Period : st \in Statements}

\* Programs with nested and sibling procedures, constants and several
\* variables.
\*   procedure p; var y; ; procedure q; read y; .
\*   procedure p; var y; ; read y.
\*   var y; procedure p; read y; call p.
\*   procedure p; procedure r; var z; ; read z; .
\*   const a = 1, b = 2; var x, y; procedure p; var x; x := a; begin call p; read y end.
ScopePrograms ==
    { ProcDecl("p", VarDecl1("y")) \o ProcDecl("q", ReadS("y")) \o Period,
      ProcDecl("p", VarDecl1("y")) \o ReadS("y") \o Period,
      VarDecl1("y") \o ProcDecl("p", ReadS("y")) \o CallS("p") \o Period,
      ProcDecl("p", ProcDecl("r", VarDecl1("z")) \o ReadS("z")) \o Period,
      ConstDecl2("a", <<"1">>, "b", <<"2">>) \o VarDecl2("x", "y")
          \o ProcDecl("p", VarDecl1("x") \o Assign("x", Id("a")))
          \o Begin2(CallS("p"), ReadS("y")) \o Period }

\* Token lists the grammar rejects.
\*   var x; read x            (no period)
\*   var x; begin read x .    (no end)
\*   var x; x 3.              (no :=)
\*   var x; if odd x write x. (no then)
\*   var x; while odd x write x.   (no do)
\*   var x; if x then write x.     (no relational operator)
\*   var x; x := ( x .        (no right parenthesis)
\*   var x; x := * .          (no factor)
\*   var x; write 3.          (write without identifier)
\*   var x; call 3.           (call without identifier)
\*   const k; .   const k = x; .   var x .   procedure ; .   procedure p .
ErrorPrograms ==
    { VarDecl1("x") \o ReadS("x"),
      VarDecl1("x") \o K("beginsym") \o ReadS("x") \o Period,
      VarDecl1("x") \o X \o N3 \o Period,
      VarDecl1("x") \o K("ifsym") \o OddC(X) \o WriteS("x") \o Period,
      VarDecl1("x") \o K("whilesym") \o OddC(X) \o WriteS("x") \o Period,
      VarDecl1("x") \o IfThen(X, WriteS("x")) \o Period,
      VarDecl1("x") \o Assign("x", K("lparentsym") \o X) \o Period,
      VarDecl1("x") \o Assign("x", K("multsym")) \o Period,
      VarDecl1("x") \o K("writesym") \o N3 \o Period,
      VarDecl1("x") \o K("callsym") \o N3 \o Period,
      K("constsym") \o Id("k") \o Semi \o Period,
      K("constsym") \o Id("k") \o K("eqsym") \o X \o Semi \o Period,
      K("varsym") \o X \o Period,
      K("procsym") \o Semi \o Period,
      K("procsym") \o Id("p") \o Period }

\* Statements that use a name for what it is not.
\*   var x; call x.          const k = 1; call k.
\*   const k = 1; k := 3.    const k = 1; k 3.
\*   procedure p; ; p := 3.  procedure p; ; p.
KindPrograms ==
    { VarDecl1("x") \o CallS("x") \o Period,
      ConstDecl1("k", <<"1">>) \o CallS("k") \o Period,
      ConstDecl1("k", <<"1">>) \o Assign("k", N3) \o Period,
      ConstDecl1("k", <<"1">>) \o Id("k") \o N3 \o Period,
      ProcDecl("p", <<>>) \o Assign("p", N3) \o Period,
      ProcDecl("p", <<>>) \o Id("p") \o Period }

\* Token lists with one syntactic violation, each with the code the error
\* table gives it.
\*    3: const .   var .   procedure ; .   var x; read .   var x; write 3.
\*       var x; begin x := 3; read end.
\*    6: var x; read x         7: var x; x 3.       8: var x; call 3.
\*    9: var x; if odd x write x.                   10: var x; begin read x .
\*   11: var x; while odd x write x.               12: var x; if x then write x.
\*   13: var x; x := ( x .   14: var x; x := * .   var x; if odd then read x.
SyntaxErrorCases ==
    { [code |-> 3, toks |-> K("constsym") \o Period],
      [code |-> 3, toks |-> K("varsym") \o Period],
      [code |-> 3, toks |-> K("procsym") \o Semi \o Period],
      [code |-> 3, toks |-> VarDecl1("x") \o K("readsym") \o Period],
      [code |-> 3, toks |-> VarDecl1("x") \o K("writesym") \o N3 \o Period],
      [code |-> 3, toks |-> VarDecl1("x") \o K("beginsym") \o Assign("x", N3)
                               \o Semi \o K("readsym") \o K("endsym") \o Period],
      [code |-> 6, toks |-> VarDecl1("x") \o ReadS("x")],
      [code |-> 7, toks |-> VarDecl1("x") \o X \o N3 \o Period],
      [code |-> 8, toks |-> VarDecl1("x") \o K("callsym") \o N3 \o Period],
      [code |-> 9, toks |-> VarDecl1("x") \o K("ifsym") \o OddC(X)
                               \o WriteS("x") \o Period],
      [code |-> 10, toks |-> VarDecl1("x") \o K("beginsym") \o ReadS("x") \o Period],
      [code |-> 11, toks |-> VarDecl1("x") \o K("whilesym") \o OddC(X)
                                \o WriteS("x") \o Period],
      [code |-> 12, toks |-> VarDecl1("x") \o IfThen(X, WriteS("x")) \o Period],
      [code |-> 13, toks |-> VarDecl1("x") \o Assign("x", K("lparentsym") \o X)
                                \o Period],
      [code |-> 14, toks |-> VarDecl1("x") \o Assign("x", K("multsym")) \o Period],
      [code |-> 14, toks |-> VarDecl1("x") \o K("ifsym") \o K("oddsym")
                                \o K("thensym") \o ReadS("x") \o Period] }

Programs ==
    Scenarios \cup StatementPrograms \cup ScopePrograms \cup ErrorPrograms
        \cup KindPrograms \cup {cs.toks : cs \in SyntaxErrorCases}

\* What the VM input stream can hold: nothing, or the text of numbers.
VMInputs == { <<>>, << <<"4", "2">>, <<"7">> >> }

(***************************************************************************)
(* parser(): the recursive descent of parser.c.  Each production is an     *)
(* operator from the index of the current token to its outcome: the code   *)
(* it returns and the index it leaves current.  Outcomes are given as      *)
(* sets, of one element each, so that a caller takes the outcome of a      *)
(* call once.  The parser adds symbols and prints the parsing history, but *)
(* never reads either back, so its return value is a function of the       *)
(* token ids alone.                                                        *)
(***************************************************************************)
parser_tokenType(i) ==
    IF i < Len(tokenList) THEN tokenList[i + 1].id ELSE NulToken.id

parser_ok(i) == {[err |-> 0, tok |-> i]}
parser_fail(code, i) == {[err |-> code, tok |-> i]}

RECURSIVE parser_block(_), parser_const_entries(_), parser_var_entries(_),
          parser_proc_declaration(_), parser_statement(_),
          parser_statement_list(_), parser_condition(_),
          parser_expression(_), parser_expression_loop(_), parser_term(_),
          parser_term_loop(_), parser_factor(_)

parser_factor(i) ==
    IF parser_tokenType(i) \in {"identsym", "numbersym"} THEN parser_ok(i + 1)
    ELSE IF parser_tokenType(i) = "lparentsym"
    THEN UNION { IF e.err # 0 THEN {e}
                 ELSE IF parser_tokenType(e.tok) # "rparentsym"
                 THEN parser_fail(13, e.tok)
                 ELSE parser_ok(e.tok + 1)
                 : e \in parser_expression(i + 1) }
    ELSE parser_fail(14, i)

parser_term_loop(i) ==
    IF parser_tokenType(i) \in {"multsym", "slashsym"}
    THEN UNION { IF f.err # 0 THEN {f} ELSE parser_term_loop(f.tok)
                 : f \in parser_factor(i + 1) }
    ELSE parser_ok(i)

parser_term(i) ==
    UNION { IF f.err # 0 THEN {f} ELSE parser_term_loop(f.tok)
            : f \in parser_factor(i) }

parser_expression_loop(i) ==
    IF parser_tokenType(i) \in {"plussym", "minussym"}
    THEN UNION { IF t.err # 0 THEN {t} ELSE parser_expression_loop(t.tok)
                 : t \in parser_term(i + 1) }
    ELSE parser_ok(i)

parser_expression(i) ==
    UNION { IF t.err # 0 THEN {t} ELSE parser_expression_loop(t.tok)
            : t \in parser_term(IF parser_tokenType(i) \in {"plussym", "minussym"}
                                THEN i + 1 ELSE i) }

parser_relop(i) ==
    IF parser_tokenType(i) \in
          {"eqsym", "neqsym", "lessym", "leqsym", "gtrsym", "geqsym"}
    THEN parser_ok(i + 1)
    ELSE parser_fail(12, i)

parser_condition(i) ==
    IF parser_tokenType(i) = "oddsym" THEN parser_expression(i + 1)
    ELSE UNION { IF e.err # 0 THEN {e}
                 ELSE UNION { IF r.err # 0 THEN {r} ELSE parser_expression(r.tok)
                              : r \in parser_relop(e.tok) }
                 : e \in parser_expression(i) }

\* {";" statement} "end" of a begin statement.
parser_statement_list(i) ==
    IF parser_tokenType(i) = "semicolonsym"
    THEN UNION { IF s.err # 0 THEN {s} ELSE parser_statement_list(s.tok)
                 : s \in parser_statement(i + 1) }
    ELSE IF parser_tokenType(i) = "endsym" THEN parser_ok(i + 1)
    ELSE parser_fail(10, i)

parser_statement(i) ==
    CASE parser_tokenType(i) = "identsym" ->
            IF parser_tokenType(i + 1) = "becomessym"
            THEN parser_expression(i + 2)
            ELSE parser_fail(7, i + 1)
      [] parser_tokenType(i) = "callsym" ->
            IF parser_tokenType(i + 1) = "identsym"
            THEN parser_ok(i + 2)
            ELSE parser_fail(8, i + 1)
      [] parser_tokenType(i) = "beginsym" ->
            UNION { IF s.err # 0 THEN {s} ELSE parser_statement_list(s.tok)
                    : s \in parser_statement(i + 1) }
      [] parser_tokenType(i) = "ifsym" ->
            UNION { IF c.err # 0 THEN {c}
                    ELSE IF parser_tokenType(c.tok) # "thensym"
                    THEN parser_fail(9, c.tok)
                    ELSE UNION { IF s.err = 0 /\ parser_tokenType(s.tok) = "elsesym"
                                 THEN parser_statement(s.tok + 1)
                                 ELSE {s}
                                 : s \in parser_statement(c.tok + 1) }
                    : c \in parser_condition(i + 1) }
      [] parser_tokenType(i) = "whilesym" ->
            UNION { IF c.err # 0 THEN {c}
                    ELSE IF parser_tokenType(c.tok) # "dosym"
                    THEN parser_fail(11, c.tok)
                    ELSE parser_statement(c.tok + 1)
                    : c \in parser_condition(i + 1) }
      [] parser_tokenType(i) \in {"readsym", "writesym"} ->
            IF parser_tokenType(i + 1) = "identsym"
            THEN parser_ok(i + 2)
            ELSE parser_fail(3, i + 1)
      [] OTHER -> parser_ok(i)

\* ident "=" number, then "," (again) or ";".
parser_const_entries(i) ==
    IF parser_tokenType(i) # "identsym" THEN parser_fail(3, i)
    ELSE IF parser_tokenType(i + 1) # "eqsym" THEN parser_fail(2, i + 1)
    ELSE IF parser_tokenType(i + 2) # "numbersym" THEN parser_fail(1, i + 2)
    ELSE IF parser_tokenType(i + 3) = "commasym"
    THEN parser_const_entries(i + 4)
    ELSE IF parser_tokenType(i + 3) = "semicolonsym" THEN parser_ok(i + 4)
    ELSE parser_fail(4, i + 3)

parser_const_declaration(i) ==
    IF parser_tokenType(i) = "constsym" THEN parser_const_entries(i + 1)
    ELSE parser_ok(i)

\* ident, then "," (again) or ";".
parser_var_entries(i) ==
    IF parser_tokenType(i) # "identsym" THEN parser_fail(3, i)
    ELSE IF parser_tokenType(i + 1) = "commasym"
    THEN parser_var_entries(i + 2)
    ELSE IF parser_tokenType(i + 1) = "semicolonsym" THEN parser_ok(i + 2)
    ELSE parser_fail(4, i + 1)

parser_var_declaration(i) ==
    IF parser_tokenType(i) = "varsym" THEN parser_var_entries(i + 1)
    ELSE parser_ok(i)

parser_proc_declaration(i) ==
    IF parser_tokenType(i) # "procsym" THEN parser_ok(i)
    ELSE IF parser_tokenType(i + 1) # "identsym" THEN parser_fail(3, i + 1)
    ELSE IF parser_tokenType(i + 2) # "semicolonsym" THEN parser_fail(5, i + 2)
    ELSE UNION { IF b.err # 0 THEN {b}
                 ELSE IF parser_tokenType(b.tok) = "semicolonsym"
                 THEN parser_proc_declaration(b.tok + 1)
                 ELSE parser_fail(5, b.tok)
                 : b \in parser_block(i + 3) }

parser_block(i) ==
    UNION { IF c.err # 0 THEN {c}
            ELSE UNION { IF v.err # 0 THEN {v}
                         ELSE UNION { IF p.err # 0 THEN {p}
                                      ELSE parser_statement(p.tok)
                                      : p \in parser_proc_declaration(v.tok) }
                         : v \in parser_var_declaration(c.tok) }
            : c \in parser_const_declaration(i) }

parser_program(i) ==
    UNION { IF b.err # 0 THEN {b}
            ELSE IF parser_tokenType(b.tok) # "periodsym"
            THEN parser_fail(6, b.tok)
            ELSE parser_ok(b.tok + 1)
            : b \in parser_block(i) }

(***************************************************************************)
(* The lexer of lexical_analyzer.c.  The source string is the sequence     *)
(* sourceCode followed by its terminating NUL; characters are indexed      *)
(* from 0 as in the code.  A read at an index beyond the NUL is a read     *)
(* outside the string.                                                     *)
(***************************************************************************)
NUL == ""
MAX_LEXEME_LENGTH == 11

Letters ==
    { "a", "b", "c", "d", "e", "f", "g", "h", "i", "j", "k", "l", "m", "n",
      "o", "p", "q", "r", "s", "t", "u", "v", "w", "x", "y", "z", "A", "Z" }
isalpha(ch) == ch \in Letters
isdigit(ch) == IsDigit(ch)
isSpecialSymbol(ch) ==
    ch \in {"+", "-", "*", "/", "(", ")", "=", ",", ".", "<", ">", ";", ":"}

getSymbolType(ch) ==
    IF isalpha(ch) THEN "ALPHA"
    ELSE IF isdigit(ch) THEN "DIGIT"
    ELSE IF isSpecialSymbol(ch) THEN "SPECIAL"
    ELSE "INVALID"

\* The reserved words of the token table, which checkReservedTokens() scans.
ReservedWords ==
    { "constsym", "varsym", "procsym", "callsym", "beginsym", "endsym",
      "ifsym", "thensym", "elsesym", "whilesym", "dosym", "readsym",
      "writesym", "oddsym" }

\* The id of the reserved word spelled lexeme, or "none" (-1 in the code).
checkReservedTokens(lexeme) ==
    IF \E id \in ReservedWords : ReservedLexeme[id] = lexeme
    THEN CHOOSE id \in ReservedWords : ReservedLexeme[id] = lexeme
    ELSE "none"

\* sourceCode[i] for 0 <= i <= strlen(sourceCode).
SrcAt(i) == IF i < Len(sourceCode) THEN sourceCode[i + 1] ELSE NUL

\* The number of characters of the maximal run of letters and digits that
\* starts at index i.
RECURSIVE AlnumRun(_)
AlnumRun(i) ==
    IF isalpha(SrcAt(i)) \/ isdigit(SrcAt(i)) THEN 1 + AlnumRun(i + 1) ELSE 0

\* The position (from 1) of the first letter among the n characters that
\* start at index i, or 0 if they are all digits.
FirstAlpha(i, n) ==
    LET P == {p \in 1..n : isalpha(SrcAt(i + p - 1))}
    IN  IF P = {} THEN 0 ELSE CHOOSE p \in P : \A q \in P : p <= q

\* What a DFA leaves behind: the lexer state, whether the lexer is still
\* running, and whether it has read outside the string.
Lexed(st) == [st |-> st, status |-> "running", overread |-> FALSE]
LexCrashed(st) == [st |-> st, status |-> "crashed", overread |-> FALSE]

addToken(st, token) == [st EXCEPT !.tokenList = Append(@, token)]

\* lexeme[i] = '\0' after the loop of DFA_Alpha and DFA_Digit.  The array
\* has MAX_LEXEME_LENGTH + 1 elements; with i = MAX_LEXEME_LENGTH + 1 the
\* write is outside it, and the function either goes on or the process
\* faults.
TerminateLexeme(st, n, next) ==
    IF n > MAX_LEXEME_LENGTH THEN {LexCrashed(st), next} ELSE {next}

\* DFA_Alpha(): the loop consumes the run, giving up at its character
\* MAX_LEXEME_LENGTH + 2; a run longer than 11 is an error, any other becomes
\* a reserved-word token or an identifier token.
DFA_Alpha(st) ==
    LET n == AlnumRun(st.charInd)
        lexeme == SubSeq(sourceCode, st.charInd + 1, st.charInd + n)
        reservedToken == checkReservedTokens(lexeme)
        st1 == [st EXCEPT !.charInd = @ + n]
    IN  IF n - 1 > MAX_LEXEME_LENGTH
        THEN {Lexed([st EXCEPT !.charInd = @ + MAX_LEXEME_LENGTH + 2,
                               !.lexerError = "NAME_TOO_LONG"])}
        ELSE TerminateLexeme(st1, n,
                IF n > 11
                THEN Lexed([st1 EXCEPT !.lexerError = "NAME_TOO_LONG"])
                ELSE IF reservedToken # "none"
                THEN Lexed(addToken(st1, [id |-> reservedToken,
                                          lexeme |-> lexeme]))
                ELSE Lexed(addToken(st1, Ident(lexeme))))

\* DFA_Digit(): as DFA_Alpha, but inside the loop a letter is an error once
\* the length test of that character has passed; a run of digits longer
\* than 5 is an error, any other a number token.
DFA_Digit(st) ==
    LET n == AlnumRun(st.charInd)
        p == FirstAlpha(st.charInd, n)
        lexeme == SubSeq(sourceCode, st.charInd + 1, st.charInd + n)
        st1 == [st EXCEPT !.charInd = @ + n]
    IN  IF p # 0 /\ p - 1 <= MAX_LEXEME_LENGTH
        THEN {Lexed([st EXCEPT !.charInd = @ + p,
                               !.lexerError = "NONLETTER_VAR_INITIAL"])}
        ELSE IF n - 1 > MAX_LEXEME_LENGTH
        THEN {Lexed([st EXCEPT !.charInd = @ + MAX_LEXEME_LENGTH + 2,
                               !.lexerError = "NUM_TOO_LONG"])}
        ELSE TerminateLexeme(st1, n,
                IF n > 5
                THEN Lexed([st1 EXCEPT !.lexerError = "NUM_TOO_LONG"])
                ELSE Lexed(addToken(st1, Number(lexeme))))

\* The indices k, from i on, at which "*" is followed by "/".
CommentEnds(i) ==
    {k \in i..(Len(sourceCode) - 2) : SrcAt(k) = "*" /\ SrcAt(k + 1) = "/"}

\* The comment branch of DFA_Special(), entered at the "/" of "/*": the
\* loop steps from the character after the "*" to the first "*" followed by
\* "/" and leaves charInd after it.  It does not test for the NUL: with no
\* such pair in the string it reads on outside the string, where the
\* process faults or the lexer goes on over whatever lies there.
SkipComment(st) ==
    LET E == CommentEnds(st.charInd + 2)
    IN  IF E # {}
        THEN {Lexed([st EXCEPT !.charInd = (CHOOSE k \in E : \A j \in E : k <= j) + 2])}
        ELSE {[st |-> [st EXCEPT !.charInd = Len(sourceCode) + 1],
               status |-> s, overread |-> TRUE] : s \in {"crashed", "overrun"}}

\* The token DFA_Special() adds for the characters ch, nx at charInd and
\* charInd + 1 ("none": no token), and the number of characters it consumes.
SpecialToken(ch, nx) ==
    CASE ch = "/" -> [id |-> "slashsym", len |-> 1]
      [] ch = "<" /\ nx = "=" -> [id |-> "leqsym", len |-> 2]
      [] ch = "<" /\ nx = ">" -> [id |-> "neqsym", len |-> 2]
      [] ch = "<" /\ nx \notin {"=", ">"} -> [id |-> "lessym", len |-> 1]
      [] ch = ":" /\ nx = "=" -> [id |-> "becomessym", len |-> 2]
      [] ch = ":" /\ nx # "=" -> [id |-> "none", len |-> 1]
      [] ch = ">" /\ nx = "=" -> [id |-> "geqsym", len |-> 2]
      [] ch = ">" /\ nx # "=" -> [id |-> "gtrsym", len |-> 1]
      [] ch = "+" -> [id |-> "plussym", len |-> 1]
      [] ch = ")" -> [id |-> "rparentsym", len |-> 1]
      [] ch = "-" -> [id |-> "minussym", len |-> 1]
      [] ch = "=" -> [id |-> "eqsym", len |-> 1]
      [] ch = "," -> [id |-> "commasym", len |-> 1]
      [] ch = "*" -> [id |-> "multsym", len |-> 1]
      [] ch = ";" -> [id |-> "semicolonsym", len |-> 1]
      [] ch = "(" -> [id |-> "lparentsym", len |-> 1]
      [] ch = "." -> [id |-> "periodsym", len |-> 1]

DFA_Special(st) ==
    LET ch == SrcAt(st.charInd)
        nx == SrcAt(st.charInd + 1)
        t == SpecialToken(ch, nx)
        st1 == [st EXCEPT !.charInd = @ + t.len]
    IN  IF ch = "/" /\ nx = "*" THEN SkipComment(st)
        ELSE IF t.id = "none" THEN {Lexed(st1)}
        ELSE {Lexed(addToken(st1, Tok(t.id)))}

\* The inner loop of lexicalAnalyzer(): spaces and newlines are skipped,
\* newlines counted.
RECURSIVE SkipBlanks(_)
SkipBlanks(st) ==
    IF SrcAt(st.charInd) = " "
    THEN SkipBlanks([st EXCEPT !.charInd = @ + 1])
    ELSE IF SrcAt(st.charInd) = "\n"
    THEN SkipBlanks([st EXCEPT !.charInd = @ + 1, !.lineNum = @ + 1])
    ELSE st

initLexerState ==
    [lineNum |-> 0, charInd |-> 0, lexerError |-> "NONE", tokenList |-> <<>>]

\* The test of the outer loop of lexicalAnalyzer().
LexerGoesOn(st) == SrcAt(st.charInd) # NUL /\ st.lexerError = "NONE"

\* A LexerOut that hands back no tokens when there is an error.
LexerResultNoTokens(st) ==
    [lexerError |-> st.lexerError,
     errorLine |-> IF st.lexerError # "NONE" THEN st.lineNum ELSE -1,
     tokenList |-> IF st.lexerError # "NONE" THEN <<>> ELSE st.tokenList]

\* The LexerOut built after the loop.
LexerResult(st) ==
    [lexerError |-> st.lexerError,
     errorLine |-> IF st.lexerError # "NONE" THEN st.lineNum ELSE -1,
     tokenList |-> st.tokenList]

\* Sources with comments, closed and not; ^ stands for a newline:
\*   /* x */ a    a /*    /*    /*/    /**/    /* * /    /***/;
\*   /*^*/ #    ^/* ^ x    /*^^*/ 123456    a /*^*/ 1a    x /* c */ := 3
CommentSources ==
    { << "/", "*", " ", "x", " ", "*", "/", " ", "a" >>,
      << "a", " ", "/", "*" >>,
      << "/", "*" >>,
      << "/", "*", "/" >>,
      << "/", "*", "*", "/" >>,
      << "/", "*", " ", "*", " ", "/" >>,
      << "/", "*", "*", "*", "/", ";" >>,
      << "/", "*", "\n", "*", "/", " ", "#" >>,
      << "\n", "/", "*", " ", "\n", " ", "x" >>,
      << "/", "*", "\n", "\n", "*", "/", " ", "1", "2", "3", "4", "5", "6" >>,
      << "a", " ", "/", "*", "\n", "*", "/", " ", "1", "a" >>,
      << "x", " ", "/", "*", " ", "c", " ", "*", "/", " ", ":", "=", " ",
              "3" >> }

\* Sources with ":" alone and with ":=":
\*   x : 3    :    x :    x := 3    : =    x :; y
ColonSources ==
    { << "x", " ", ":", " ", "3" >>,
      << ":" >>,
      << "x", " ", ":" >>,
      << "x", " ", ":", "=", " ", "3" >>,
      << ":", " ", "=" >>,
      << "x", " ", ":", ";", " ", "y" >> }

\* Sources with an error on a later line, and the special symbols:
\*   a^^#    ^ 1a    a^b^abcdefghijklm    #    a # b    a<tab>b
\*   < <= <> > >= = + - * / ( ) , . ;    a<b<=c<>d>e>=f
\*   var x;^begin^ x := 5;^ write x^end.
LineSources ==
    { << "a", "\n", "\n", "#" >>,
      << "\n", " ", "1", "a" >>,
      << "a", "\n", "b", "\n", "a", "b", "c", "d", "e", "f", "g", "h", "i",
              "j", "k", "l", "m" >>,
      << "#" >>,
      << "a", " ", "#", " ", "b" >>,
      << "a", "\t", "b" >>,
      << "<", " ", "<", "=", " ", "<", ">", " ", ">", " ", ">", "=", " ",
              "=", " ", "+", " ", "-", " ", "*", " ", "/", " ", "(", " ",
              ")", " ", ",", " ", ".", " ", ";" >>,
      << "a", "<", "b", "<", "=", "c", "<", ">", "d", ">", "e", ">", "=",
              "f" >>,
      << "v", "a", "r", " ", "x", ";", "\n", "b", "e", "g", "i", "n", "\n",
              " ", "x", " ", ":", "=", " ", "5", ";", "\n", " ", "w", "r",
              "i", "t", "e", " ", "x", "\n", "e", "n", "d", "." >> }

\* Runs of letters and of digits, of every length up to MaxRun, alone and
\* followed by " ;", and runs of digits with one letter at each place.
MaxRun == 14
AlphaRun(n) == [i \in 1..n |-> <<"a", "b", "c", "d", "e", "f", "g">>[(i % 7) + 1]]
DigitRun(n) == [i \in 1..n |-> Digits[(i % 10) + 1]]
RunSources ==
    {AlphaRun(n) : n \in 1..MaxRun}
        \cup {DigitRun(n) : n \in 1..MaxRun}
        \cup {AlphaRun(n) \o <<" ", ";">> : n \in 1..MaxRun}
        \cup {DigitRun(n) \o <<" ", ";">> : n \in 1..MaxRun}
        \cup {DigitRun(p - 1) \o <<"x">> : p \in 2..MaxRun}
        \cup {DigitRun(p - 1) \o <<"x">> \o DigitRun(MaxRun - p) :
                 p \in 2..MaxRun}
        \cup {ReservedLexeme[id] : id \in ReservedWords}
        \cup {<<"x", "1">>, <<"o", "d", "d", "s">>, <<"A", "1", "Z">>}

\* The token of the punctuator ":" in the token model.
ColonToken == [id |-> "colonsym", lexeme |-> <<":">>]

\* Sequences of tokens of the token model: each keyword and punctuator alone,
\* identifiers of 1 to 11 characters, numbers of 1 to 5 digits, pairs of
\* punctuators that would read as one if they were not kept apart, and
\* whole programs.
TokenSeqs ==
    {<<Tok(id)>> : id \in DOMAIN ReservedLexeme}
        \cup {<<ColonToken>>}
        \cup {<<Ident(AlphaRun(n))>> : n \in 1..11}
        \cup {<<Number(DigitRun(n))>> : n \in 1..5}
        \cup { <<Number(<<"0", "0", "7">>)>>,
               <<Ident(<<"x", "1">>), Tok("becomessym"), Number(<<"0">>)>>,
               <<Tok("slashsym"), Tok("multsym")>>,
               <<Tok("lessym"), Tok("eqsym")>>,
               <<Tok("lessym"), Tok("gtrsym")>>,
               <<Tok("gtrsym"), Tok("eqsym")>>,
               <<Ident(<<"x">>), ColonToken, Number(<<"3">>)>> }
        \cup Scenarios

\* The lexemes of the tokens ts written with single spaces between them.
RECURSIVE Unlex(_)
Unlex(ts) ==
    IF ts = <<>> THEN <<>>
    ELSE IF Len(ts) = 1 THEN ts[1].lexeme
    ELSE ts[1].lexeme \o <<" ">> \o Unlex(Tail(ts))

UnlexSources == {Unlex(ts) : ts \in TokenSeqs}

LexSources ==
    RunSources \cup CommentSources \cup ColonSources \cup LineSources
        \cup UnlexSources

\* The lexer has not been called.
NoLexerOut == [lexerError |-> "NONE", errorLine |-> -1, tokenList |-> <<>>]
LexOff ==
    /\ lexerState = initLexerState
    /\ lexStatus = "off"
    /\ lexerOut = NoLexerOut
    /\ lastLexeme = [start |-> -1, tokens |-> 0]
    /\ overread = FALSE

(***************************************************************************)
(* Initial state: a token list, no tool has run.                      *)
(***************************************************************************)
\* Neither the parser, the code generator nor the VM has run.
ToolsIdleWith(file) ==
    /\ cgStatus = "idle"
    /\ cgErr = 0
    /\ tokInd = 0
    /\ currentLevel = 0
    /\ currentScope = NullScope
    /\ symbolTable = <<>>
    /\ vmCode = <<>>
    /\ nextCodeIndex = 0
    /\ currentReg = 0
    /\ callStack = <<>>
    /\ nextAct = 0
    /\ err = 0
    /\ lastRet = NoRet
    /\ lastFind = NoFind
    /\ regDeltas = {}
    /\ outFile = file
    /\ vm = initVM
    /\ vmStatus = "off"
    /\ insArray = <<>>
    /\ numOfIns = 0
    /\ vmIn = <<>>
    /\ vmOut = <<>>
    /\ vmSteps = 0
    /\ lastIns = [index |-> -1, ins |-> IllegalIns, vm |-> initVM, frames |-> <<>>]
    /\ parStatus = "idle"
    /\ parErr = 0
    /\ parTok = 0

ToolsIdle == ToolsIdleWith(<<>>)

Init ==
    /\ tokenList \in Programs
    /\ ToolsIdle
    /\ sourceCode = <<>>
    /\ LexOff

(***************************************************************************)
(* parser() is called on the token list.  parser() and codeGenerator()     *)
(* share nothing but the token list, which neither changes, so the order   *)
(* of the two calls is immaterial; the parser is taken first.              *)
(***************************************************************************)
parser ==
    /\ parStatus = "idle"
    /\ parStatus' = "returned"
    /\ \E r \in parser_program(0) : parErr' = r.err /\ parTok' = r.tok
    /\ UNCHANGED <<tokenList, cgVars, vmVars, lexVars>>

(***************************************************************************)
(* Actions of the code generator.                                          *)
(***************************************************************************)
\* The production fn is running and is at label pc.
At(fn, pc) ==
    /\ cgStatus = "running"
    /\ callStack # <<>>
    /\ callStack[Len(callStack)].fn = fn
    /\ callStack[Len(callStack)].pc = pc

\* The code generator's state becomes u.
Commit(u) ==
    /\ cgStatus' = u.cgStatus
    /\ tokInd' = u.tokInd
    /\ currentLevel' = u.currentLevel
    /\ currentScope' = u.currentScope
    /\ symbolTable' = u.symbolTable
    /\ vmCode' = u.vmCode
    /\ nextCodeIndex' = u.nextCodeIndex
    /\ currentReg' = u.currentReg
    /\ callStack' = u.callStack
    /\ nextAct' = u.nextAct
    /\ err' = u.err
    /\ lastRet' = u.lastRet
    /\ lastFind' = u.lastFind
    /\ regDeltas' = u.regDeltas
    /\ UNCHANGED <<tokenList, cgErr, outFile, vmVars, parVars, lexVars>>

\* codeGenerator(), up to the call of program().
codeGeneratorStart ==
    /\ cgStatus = "idle"
    /\ parStatus = "returned"
    /\ cgStatus' = "running"
    /\ tokInd' = 0
    /\ currentLevel' = 0
    /\ currentScope' = NullScope
    /\ nextCodeIndex' = 0
    /\ currentReg' = 0
    /\ symbolTable' = <<>>
    /\ callStack' = <<NewFrame([currentReg |-> 0, tokInd |-> 0,
                                nextCodeIndex |-> 0, nextAct |-> nextAct],
                               "program")>>
    /\ UNCHANGED <<tokenList, cgErr, vmCode, nextAct, err, lastRet, lastFind,
                   regDeltas, outFile, vmVars, parVars, lexVars>>

\* codeGenerator(), after program() returned: print the code if there was
\* no error, reset the iterator, delete the symbol table, return err.
codeGeneratorReturn ==
    /\ cgStatus = "running"
    /\ callStack = <<>>
    /\ outFile' = IF err = 0 THEN printEmittedCodes(vmCode, nextCodeIndex)
                  ELSE outFile
    /\ tokInd' = 0
    /\ symbolTable' = <<>>
    /\ cgErr' = err
    /\ cgStatus' = "returned"
    /\ UNCHANGED <<tokenList, currentLevel, currentScope, vmCode, nextCodeIndex,
                   currentReg, callStack, nextAct, err, lastRet, lastFind,
                   regDeltas, vmVars, parVars, lexVars>>

program_start == At("program", "start") /\ \E u \in ProgramStart(Cur) : Commit(u)
program_afterBlock ==
    At("program", "afterBlock") /\ \E u \in ProgramAfterBlock(Cur) : Commit(u)

block_start == At("block", "start") /\ \E u \in BlockStart(Cur) : Commit(u)
block_afterConst ==
    At("block", "afterConst") /\ \E u \in BlockAfterConst(Cur) : Commit(u)
block_afterVar == At("block", "afterVar") /\ \E u \in BlockAfterVar(Cur) : Commit(u)
block_afterProc ==
    At("block", "afterProc") /\ \E u \in BlockAfterProc(Cur) : Commit(u)
block_afterStatement ==
    At("block", "afterStatement") /\ \E u \in BlockAfterStatement(Cur) : Commit(u)

const_declaration ==
    At("const_declaration", "start") /\ \E u \in ConstDeclaration(Cur) : Commit(u)
var_declaration ==
    At("var_declaration", "start") /\ \E u \in VarDeclaration(Cur) : Commit(u)

proc_declaration_start ==
    At("proc_declaration", "start") /\ \E u \in ProcStart(Cur) : Commit(u)
proc_declaration_afterBlock ==
    At("proc_declaration", "afterBlock") /\ \E u \in ProcAfterBlock(Cur) : Commit(u)

statement_start ==
    At("statement", "start") /\ \E u \in StatementStart(Cur) : Commit(u)
statement_afterAssignExpr ==
    At("statement", "afterAssignExpr")
        /\ \E u \in StmtAfterAssignExpr(Cur) : Commit(u)
statement_afterBeginStmt ==
    At("statement", "afterBeginStmt")
        /\ \E u \in StmtAfterBeginStmt(Cur) : Commit(u)
statement_afterIfCond ==
    At("statement", "afterIfCond") /\ \E u \in StmtAfterIfCond(Cur) : Commit(u)
statement_afterThen ==
    At("statement", "afterThen") /\ \E u \in StmtAfterThen(Cur) : Commit(u)
statement_afterElse ==
    At("statement", "afterElse") /\ \E u \in StmtAfterElse(Cur) : Commit(u)
statement_afterWhileCond ==
    At("statement", "afterWhileCond")
        /\ \E u \in StmtAfterWhileCond(Cur) : Commit(u)
statement_afterWhileBody ==
    At("statement", "afterWhileBody")
        /\ \E u \in StmtAfterWhileBody(Cur) : Commit(u)

condition_start ==
    At("condition", "start") /\ \E u \in ConditionStart(Cur) : Commit(u)
condition_afterOddExpr ==
    At("condition", "afterOddExpr") /\ \E u \in CondAfterOddExpr(Cur) : Commit(u)
condition_afterLhs ==
    At("condition", "afterLhs") /\ \E u \in CondAfterLhs(Cur) : Commit(u)
condition_afterRhs ==
    At("condition", "afterRhs") /\ \E u \in CondAfterRhs(Cur) : Commit(u)

expression_start ==
    At("expression", "start") /\ \E u \in ExpressionStart(Cur) : Commit(u)
expression_afterFirstTerm ==
    At("expression", "afterFirstTerm")
        /\ \E u \in ExprAfterFirstTerm(Cur) : Commit(u)
expression_afterLoopTerm ==
    At("expression", "afterLoopTerm")
        /\ \E u \in ExprAfterLoopTerm(Cur) : Commit(u)

term_start == At("term", "start") /\ \E u \in TermStart(Cur) : Commit(u)
term_afterFactor ==
    At("term", "afterFactor") /\ \E u \in TermAfterFactor(Cur) : Commit(u)
term_afterLoopFactor ==
    At("term", "afterLoopFactor") /\ \E u \in TermAfterLoopFactor(Cur) : Commit(u)

factor_start == At("factor", "start") /\ \E u \in FactorStart(Cur) : Commit(u)
factor_afterExpr ==
    At("factor", "afterExpr") /\ \E u \in FactorAfterExpr(Cur) : Commit(u)

(***************************************************************************)
(* Actions of the virtual machine (simulateVM).  It runs on the file the   *)
(* code generator printed.                                                 *)
(***************************************************************************)
\* simulateVM() up to its loop: read the instructions of the file,
\* initialise the machine.
simulateVMRead ==
    /\ vmStatus = "off"
    /\ insArray' = readInstructions(outFile)
    /\ numOfIns' = Len(outFile)
    /\ vm' = initVM
    /\ vmStatus' = "run"
    /\ vmIn' \in VMInputs
    /\ UNCHANGED <<tokenList, cgVars, vmOut, vmSteps, lastIns, parVars, lexVars>>

\* The compiler runs the VM on the file the code generator printed.
simulateVMStart ==
    /\ cgStatus = "returned"
    /\ cgErr = 0
    /\ simulateVMRead

\* One iteration of the fetch-execute loop: fetch at PC, advance PC,
\* executeInstruction(), dumpStack().
simulateVMStep ==
    /\ vmStatus = "run"
    /\ vmSteps < MaxVMSteps
    /\ \E f \in Fetch(insArray, numOfIns, vm.PC) :
          IF f.fault
          THEN /\ vmStatus' = "crashed"
               /\ UNCHANGED <<vm, vmIn, vmOut, lastIns>>
          ELSE \E o \in executeInstruction([vm EXCEPT !.PC = AddWrap(@, 1)],
                                           f.ins, vmIn, vmOut) :
               \E d \in dumpStack(o.vm, o.vm.BP, {}) :
                  /\ vm' = o.vm
                  /\ vmIn' = o.vmIn
                  /\ vmOut' = o.vmOut
                  /\ lastIns' = [index |-> vm.PC, ins |-> f.ins, vm |-> vm,
                                  frames |-> FramesAfter(lastIns)]
                  /\ vmStatus' = IF o.status = "fault" \/ d = "fault"
                                 THEN "crashed"
                                 ELSE IF o.status = "halt" THEN "halted"
                                 ELSE "run"
    /\ vmSteps' = vmSteps + 1
    /\ UNCHANGED <<tokenList, cgVars, insArray, numOfIns, parVars, lexVars>>

Next ==
    \/ parser
    \/ codeGeneratorStart
    \/ codeGeneratorReturn
    \/ program_start
    \/ program_afterBlock
    \/ block_start
    \/ block_afterConst
    \/ block_afterVar
    \/ block_afterProc
    \/ block_afterStatement
    \/ const_declaration
    \/ var_declaration
    \/ proc_declaration_start
    \/ proc_declaration_afterBlock
    \/ statement_start
    \/ statement_afterAssignExpr
    \/ statement_afterBeginStmt
    \/ statement_afterIfCond
    \/ statement_afterThen
    \/ statement_afterElse
    \/ statement_afterWhileCond
    \/ statement_afterWhileBody
    \/ condition_start
    \/ condition_afterOddExpr
    \/ condition_afterLhs
    \/ condition_afterRhs
    \/ expression_start
    \/ expression_afterFirstTerm
    \/ expression_afterLoopTerm
    \/ term_start
    \/ term_afterFactor
    \/ term_afterLoopFactor
    \/ factor_start
    \/ factor_afterExpr
    \/ simulateVMStart
    \/ simulateVMStep

Spec == Init /\ [][Next]_vars

(***************************************************************************)
(* lexicalAnalyzer(): one action for its entry, one for each way an        *)
(* iteration of its loop can go, one for its return.                       *)
(***************************************************************************)
\* The lexer has taken the DFA outcome o for the lexeme that starts where st
\* stands.
LexCommit(st, o) ==
    /\ lexerState' = o.st
    /\ lexStatus' = o.status
    /\ overread' = (overread \/ o.overread)
    /\ lastLexeme' = [start |-> st.charInd, tokens |-> Len(st.tokenList)]
    /\ UNCHANGED <<tokenList, cgVars, vmVars, parVars, sourceCode, lexerOut>>

lexicalAnalyzer_start ==
    /\ lexStatus = "off"
    /\ lexerState' = initLexerState
    /\ lexStatus' = "running"
    /\ UNCHANGED <<tokenList, cgVars, vmVars, parVars, sourceCode, lexerOut,
                   lastLexeme, overread>>

\* The loop is entered, and after the blanks comes a character of type t.
LexerAt(t) ==
    /\ lexStatus = "running"
    /\ LexerGoesOn(lexerState)
    /\ SrcAt(SkipBlanks(lexerState).charInd) # NUL
    /\ getSymbolType(SrcAt(SkipBlanks(lexerState).charInd)) = t

lexicalAnalyzer_alpha ==
    /\ LexerAt("ALPHA")
    /\ \E o \in DFA_Alpha(SkipBlanks(lexerState)) :
          LexCommit(SkipBlanks(lexerState), o)

lexicalAnalyzer_digit ==
    /\ LexerAt("DIGIT")
    /\ \E o \in DFA_Digit(SkipBlanks(lexerState)) :
          LexCommit(SkipBlanks(lexerState), o)

lexicalAnalyzer_special ==
    /\ LexerAt("SPECIAL")
    /\ \E o \in DFA_Special(SkipBlanks(lexerState)) :
          LexCommit(SkipBlanks(lexerState), o)

lexicalAnalyzer_invalid ==
    /\ LexerAt("INVALID")
    /\ LexCommit(SkipBlanks(lexerState),
                 Lexed([SkipBlanks(lexerState) EXCEPT !.lexerError = "INV_SYM"]))

\* The loop ends, at its test or at the break after the blanks, and the
\* LexerOut is built.
lexicalAnalyzer_return ==
    /\ lexStatus = "running"
    /\ LexerGoesOn(lexerState) => SrcAt(SkipBlanks(lexerState).charInd) = NUL
    /\ lexerState' = IF LexerGoesOn(lexerState) THEN SkipBlanks(lexerState)
                     ELSE lexerState
    /\ lexerOut' = LexerResult(lexerState')
    /\ lexStatus' = "returned"
    /\ UNCHANGED <<tokenList, cgVars, vmVars, parVars, sourceCode, lastLexeme,
                   overread>>

LexInit ==
    /\ tokenList = <<>>
    /\ ToolsIdle
    /\ sourceCode \in LexSources
    /\ LexOff

LexNext ==
    \/ lexicalAnalyzer_start
    \/ lexicalAnalyzer_alpha
    \/ lexicalAnalyzer_digit
    \/ lexicalAnalyzer_special
    \/ lexicalAnalyzer_invalid
    \/ lexicalAnalyzer_return

LexSpec == LexInit /\ [][LexNext]_vars

(***************************************************************************)
(* The virtual machine on a code file of its own: simulateVM() reads       *)
(* whatever instructions the file holds.                                   *)
(***************************************************************************)
Ins(op, r, l, m) == [op |-> op, r |-> r, l |-> l, m |-> m]
Halt == Ins(SIO_HALT, 0, 0, 0)
CodeFile(code) == printEmittedCodes(code, Len(code))

\* RF[2] = a op b, written out.
DivPrograms ==
    { <<Ins(LIT, 0, 0, a), Ins(LIT, 1, 0, b), Ins(op, 2, 0, 1),
        Ins(SIO_WRITE, 2, 0, 0), Halt>>
      : a \in {7, -7, 0}, b \in {0, 2}, op \in {DIV, MOD} }

\* One instruction of each opcode, and of the numbers next to them, on a
\* machine with a frame of four cells.
OpcodePrograms ==
    { <<Ins(LIT, 1, 0, k), Ins(INC, 0, 0, 4), Ins(op, 1, 1, 3), Halt>>
      : k \in {0, 1}, op \in 0..(GEQ + 1) }

\* Jumps and calls to targets in and outside the code.
JumpPrograms ==
    { <<Ins(op, 0, 0, t), Halt>> : op \in {JMP, JPC, CAL}, t \in {-1, 1, 2, 9} }

\* A conditional jump on a register that is zero or not.
BranchPrograms ==
    { <<Ins(LIT, 0, 0, k), Ins(JPC, 0, 0, t), Ins(SIO_WRITE, 0, 0, 0), Halt>>
      : k \in {0, 1, -7}, t \in {0, 3} }

\* Stack accesses at offsets in and outside the stack, below a stack
\* pointer moved by INC.
StackPrograms ==
    { <<Ins(INC, 0, 0, n), Ins(op, 0, 0, m), Halt>>
      : n \in {0, -3, MAX_STACK_HEIGHT - 2, MAX_STACK_HEIGHT},
        m \in {0, -5, MAX_STACK_HEIGHT},
        op \in {LOD, STO, CAL} }

\* RTN through a frame whose saved PC or saved BP was overwritten.
ReturnPrograms ==
    { <<Ins(LIT, 0, 0, x), Ins(STO, 0, 0, m), Ins(RTN, 0, 0, 0),
        Ins(LOD, 0, 0, 0), Halt>>
      : x \in {4, 5000}, m \in {2, 3} }

\* The parity of a value and a comparison of two, written out.
FlagPrograms ==
    { <<Ins(LIT, 0, 0, a), Ins(ODD, 0, 0, 0), Ins(SIO_WRITE, 0, 0, 0), Halt>>
      : a \in {-7, -2, -1, 0, 1, 6, 7} }
    \cup
    { <<Ins(LIT, 0, 0, a), Ins(LIT, 1, 0, 3), Ins(op, 2, 0, 1),
        Ins(SIO_WRITE, 2, 0, 0), Halt>>
      : a \in {-7, 3, 7}, op \in EQL..GEQ }

\* A procedure that calls a second one; the second stores into its frame,
\* at the cell of its return address or at its first variable.
CallPrograms ==
    { <<Ins(CAL, 0, 0, 2), Halt,
        Ins(INC, 0, 0, 4), Ins(CAL, 0, l, 6), Ins(RTN, 0, 0, 0), Halt,
        Ins(INC, 0, 0, 4), Ins(LIT, 0, 0, 1), Ins(STO, 0, 0, m),
        Ins(RTN, 0, 0, 0)>>
      : l \in {0, 1}, m \in {3, 4} }

\* Code without SIO_HALT.
OpenPrograms == { <<>>, <<Ins(LIT, 0, 0, 5)>> }

VMFiles ==
    { CodeFile(code) :
        code \in DivPrograms \cup OpcodePrograms \cup JumpPrograms
                    \cup StackPrograms \cup ReturnPrograms \cup FlagPrograms
                    \cup CallPrograms \cup BranchPrograms
                    \cup OpenPrograms }

VMInit ==
    /\ tokenList = <<>>
    /\ \E file \in VMFiles : ToolsIdleWith(file)
    /\ sourceCode = <<>>
    /\ LexOff

VMNext ==
    \/ simulateVMRead
    \/ simulateVMStep

VMSpec == VMInit /\ [][VMNext]_vars

(***************************************************************************)
(* Properties.                                                             *)
(***************************************************************************)
IsPrefix(s, t) == Len(s) <= Len(t) /\ SubSeq(t, 1, Len(s)) = s

\* The decimal form of a literal: its digits without leading zeros.
RECURSIVE Canonical(_)
Canonical(k) ==
    IF Len(k) > 1 /\ k[1] = "0" THEN Canonical(Tail(k)) ELSE k

\* The code generator returned 0.
Accepted == cgStatus = "returned" /\ cgErr = 0

\* The toolchain, given prog, generates code without failing, and the code
\* writes exactly expected to VM-out and then executes SIO_HALT.
RunsTo(prog, expected) ==
    tokenList = prog =>
        /\ cgStatus \notin {"crashed", "exited"}
        /\ cgStatus = "returned" => cgErr = 0
        /\ vmStatus # "crashed"
        /\ IsPrefix(vmOut, expected)
        /\ vmStatus = "halted" =>
              vmOut = expected /\ lastIns.ins.op = SIO_HALT

\* C1: for every literal k of at most 5 digits, the program
\* `var x; begin x := k; write x end.` is compiled and run to the end, writes
\* exactly the decimal form of k to VM-out and halts (k = 5 writes `5`).
C1_AssignWrite ==
    \A k \in Literals : RunsTo(Scenario1(k), Canonical(k))

\* C2: `var i; begin i := 0; while i < 3 do begin write i; i := i + 1 end
\* end.` writes 0, then 1, then 2 and then halts: the body runs once per
\* iteration while the condition holds, and the condition is re-evaluated
\* after each run of the body.
C2_WhileLoop ==
    /\ RunsTo(Scenario4, <<"0", "1", "2">>)
    /\ (tokenList = Scenario4 /\ Accepted) =>
          \E i \in 1..nextCodeIndex :
              vmCode[i].op = JMP /\ vmCode[i].m < i - 1

\* C3: `procedure p; var y; begin y := 1; write y end; begin call p end.`
\* writes exactly `1` and then reaches SIO_HALT: the body of p runs exactly
\* once, is entered only through the CAL, and control returns to the
\* instruction after the CAL.
C3_ProcedureCall ==
    /\ RunsTo(Scenario6, <<"1">>)
    /\ (tokenList = Scenario6 /\ Accepted) =>
          \A i \in 1..nextCodeIndex :
              vmCode[i].op = CAL =>
                  /\ vmCode[i].m \in 0..(nextCodeIndex - 1)
                  /\ \E j \in 1..nextCodeIndex : vmCode[j].op = RTN

C5_ConstFactor == RunsTo(Scenario2, <<"1", "0">>)

\* C6: in the code generation of an accepted program, every return of 0 from
\* expression(), term() or factor() leaves currentReg exactly one higher than
\* at the call, and every return of 0 from statement() leaves it unchanged.
C6_RegisterDiscipline ==
    Accepted =>
        \A d \in regDeltas :
            /\ d.fn \in {"expression", "term", "factor"} => d.delta = 1
            /\ d.fn = "statement" => d.delta = 0

\* C7: in the final instruction array of an accepted program every JMP and
\* every JPC has a target m with 0 <= m <= nextCodeIndex, and no target is
\* still the placeholder: each was patched to an index after the jump.
C7_JumpTargets ==
    Accepted =>
        \A i \in 1..nextCodeIndex :
            vmCode[i].op \in {JMP, JPC} =>
                /\ 0 <= vmCode[i].m
                /\ vmCode[i].m <= nextCodeIndex
                /\ vmCode[i].m > i - 1

\* An accepted program whose code holds a patched JMP and a patched JPC.
C7_Reached ==
    /\ Accepted
    /\ \E i \in 1..nextCodeIndex : vmCode[i].op = JMP /\ vmCode[i].m > 0
    /\ \E i \in 1..nextCodeIndex : vmCode[i].op = JPC /\ vmCode[i].m > 0

\* Control flow of the emitted code, over code indices from 0: fall-through,
\* the JMP target, both JPC outcomes; nothing follows RTN or SIO_HALT.
FlowSucc(a) ==
    LET ins == vmCode[a + 1]
    IN  (CASE ins.op = JMP -> {ins.m}
           [] ins.op = JPC -> {a + 1, ins.m}
           [] ins.op \in {RTN, SIO_HALT} -> {}
           [] OTHER -> {a + 1})
        \cap 0..(nextCodeIndex - 1)

RECURSIVE FlowReach(_)
FlowReach(S) ==
    LET N == S \cup UNION {FlowSucc(a) : a \in S}
    IN  IF N = S THEN S ELSE FlowReach(N)

\* C8: in the code of an accepted program, from the address every CAL
\* transfers control to, an RTN is reachable along the control flow.
C8_CallHasReturn ==
    Accepted =>
        \A i \in 1..nextCodeIndex :
            vmCode[i].op = CAL =>
                \E a \in FlowReach({vmCode[i].m} \cap 0..(nextCodeIndex - 1)) :
                    vmCode[a + 1].op = RTN

\* The scope of the innermost block being compiled: the procedure whose
\* declaration is running, or the global scope.
EnclosingScope ==
    LET P == {i \in 1..Len(callStack) : callStack[i].fn = "proc_declaration"}
    IN  IF P = {} THEN NullScope
        ELSE [act |-> callStack[SetMax(P)].act, level |-> currentLevel - 1]

\* C9: a lookup never resolves a name to a symbol declared in a block that
\* has closed (a sibling procedure's, or a procedure's seen from the
\* enclosing block's statement), and while a block's statement is compiled
\* the scope used for lookup is that block's own scope again.
C9_LookupHonorsScope ==
    /\ lastFind.index # 0 => lastFind.open
    /\ (cgStatus = "running"
          /\ \E i \in 1..Len(callStack) : callStack[i].fn = "statement")
       => currentScope = EnclosingScope

HaltIns == [op |-> SIO_HALT, r |-> 0, l |-> 0, m |-> 3]

\* C10: the code of an accepted program ends with (SIO_HALT, 0, 0, 3),
\* printed as `11 0 0 3`; an SIO_HALT is in the code only once program() has
\* consumed the terminating period and returned 0, and only as the last
\* instruction.
C10_HaltLast ==
    /\ \A i \in 1..nextCodeIndex :
          vmCode[i].op = SIO_HALT =>
              /\ i = nextCodeIndex
              /\ vmCode[i] = HaltIns
              /\ lastRet.fn = "program"
              /\ lastRet.err = 0
              /\ lastRet.tokOut >= 1
              /\ tokenList[lastRet.tokOut].id = "periodsym"
    /\ Accepted =>
          /\ nextCodeIndex >= 1
          /\ vmCode[nextCodeIndex] = HaltIns
          /\ Len(outFile) = nextCodeIndex
          /\ outFile[nextCodeIndex] = << <<"1", "1">>, <<"0">>, <<"0">>, <<"3">> >>

\* An accepted program with statements before the final halt.
C10_Reached ==
    /\ Accepted
    /\ nextCodeIndex > 1
    /\ vmCode[nextCodeIndex] = HaltIns
    /\ tokenList[Len(tokenList)].id = "periodsym"
    /\ lastRet.tokOut = Len(tokenList)

\* C11: once a production has returned a nonzero code, each enclosing
\* production returns that same code at once, with the current token and the
\* emitted code as they were, and codeGenerator() returns the code and
\* prints no emitted code.
C11_ErrorPropagates ==
    [][ (cgStatus = "running" /\ err # 0) =>
            /\ err' = err
            /\ vmCode' = vmCode
            /\ nextCodeIndex' = nextCodeIndex
            /\ IF callStack # <<>>
               THEN /\ cgStatus' = "running"
                    /\ tokInd' = tokInd
                    /\ callStack' = SubSeq(callStack, 1, Len(callStack) - 1)
                    /\ outFile' = <<>>
               ELSE /\ cgStatus' = "returned"
                    /\ cgErr' = err
                    /\ outFile' = <<>> ]_vars

\* An error raised four productions deep, after code was emitted, has come
\* out of codeGenerator().
C11_Reached ==
    /\ cgStatus = "returned"
    /\ cgErr = 14
    /\ lastRet.fn = "program"
    /\ lastRet.err = 14
    /\ nextCodeIndex > 0
    /\ outFile = <<>>

\* C12: a `call` whose identifier resolves to a constant or a variable makes
\* statement() return 17.
C12_CallNonProcedure ==
    ( /\ cgStatus = "running"
      /\ lastRet.fn = "statement"
      /\ lastRet.tokIn + 1 < Len(tokenList)
      /\ tokenList[lastRet.tokIn + 1].id = "callsym"
      /\ tokenList[lastRet.tokIn + 2].id = "identsym"
      /\ lastFind.tok = lastRet.tokIn + 1
      /\ lastFind.index # 0
      /\ symbolTable[lastFind.index].type \in {"CONST", "VAR"} )
    => lastRet.err = 17

\* Token t (counted from 0) is an identifier at the head of a statement.
StatementHead(t) ==
    /\ t < Len(tokenList)
    /\ tokenList[t + 1].id = "identsym"
    /\ t = 0 \/ tokenList[t].id \in {"semicolonsym", "beginsym", "thensym",
                                      "elsesym", "dosym"}

\* C13: when statement() starts at an identifier and the lookup resolves it
\* to a CONST or PROC symbol, statement() returns 16 there and then, with no
\* regard to the tokens after the identifier, and 16 is what codeGenerator()
\* returns.
C13_AssignNonVariable ==
    [][ /\ ( /\ At("statement", "start")
             /\ getCurrentTokenType(Cur) = "identsym"
             /\ callStack' # callStack
             /\ lastFind'.index # 0
             /\ symbolTable[lastFind'.index].type \in {"CONST", "PROC"} )
           => /\ lastFind'.tok = tokInd
              /\ lastFind'.name = tokenList[tokInd + 1].lexeme
              /\ cgStatus' = "running"
              /\ lastRet'.fn = "statement"
              /\ lastRet'.err = 16
              /\ err' = 16
              /\ tokInd' = tokInd
        /\ ( /\ cgStatus = "running"
             /\ cgStatus' = "returned"
             /\ lastFind.index # 0
             /\ StatementHead(lastFind.tok)
             /\ symbolTable[lastFind.index].type \in {"CONST", "PROC"} )
           => cgErr' = 16 ]_vars

\* codeGenerator() has returned 16 for a statement that names a constant
\* and goes on without ":=".
C13_Reached ==
    /\ cgStatus = "returned"
    /\ cgErr = 16
    /\ StatementHead(lastFind.tok)
    /\ lastFind.index # 0
    /\ lastFind.tok + 2 <= Len(tokenList)
    /\ tokenList[lastFind.tok + 2].id # "becomessym"

\* C14: a token list whose first syntactic violation is one of the error
\* table's is reported with that violation's code by parser() and by
\* codeGenerator().
C14_SyntaxErrorCodes ==
    \A cs \in SyntaxErrorCases :
        tokenList = cs.toks =>
            /\ parStatus = "returned" => parErr = cs.code
            /\ cgStatus # "crashed"
            /\ cgStatus = "returned" => cgErr = cs.code

\* The run of letters and digits that the last lexeme began.
LastRun == AlnumRun(lastLexeme.start)
LastRunText ==
    SubSeq(sourceCode, lastLexeme.start + 1, lastLexeme.start + LastRun)

\* The last lexeme set no error and added exactly the token t.
EmittedOne(t) ==
    /\ lexStatus \in {"running", "returned"}
    /\ lexerState.lexerError = "NONE"
    /\ Len(lexerState.tokenList) = lastLexeme.tokens + 1
    /\ lexerState.tokenList[Len(lexerState.tokenList)] = t

\* The last lexeme set the error e and added no token.
FailedWith(e) ==
    /\ lexStatus \in {"running", "returned"}
    /\ lexerState.lexerError = e
    /\ Len(lexerState.tokenList) = lastLexeme.tokens

\* C15: a run of letters and digits that starts with a letter becomes one
\* token with the whole run as its lexeme if it has 1 to 11 characters; if it
\* has 12 or more the lexer sets NAME_TOO_LONG and adds no token.
C15_AlphaLexeme ==
    (lastLexeme.start >= 0 /\ isalpha(SrcAt(lastLexeme.start))) =>
        IF LastRun <= 11
        THEN EmittedOne([id |-> IF checkReservedTokens(LastRunText) # "none"
                                THEN checkReservedTokens(LastRunText)
                                ELSE "identsym",
                         lexeme |-> LastRunText])
        ELSE FailedWith("NAME_TOO_LONG")

\* The source has a "/*" with no "*/" after it.
UnterminatedComment ==
    \E i \in 0..(Len(sourceCode) - 2) :
        /\ SrcAt(i) = "/"
        /\ SrcAt(i + 1) = "*"
        /\ CommentEnds(i + 2) = {}

\* C16: on a source with an unterminated comment lexicalAnalyzer() reads
\* nothing beyond the terminating NUL, does not fault, and returns an error.
C16_UnterminatedComment ==
    UnterminatedComment =>
        /\ ~overread
        /\ lexStatus \in {"off", "running", "returned"}
        /\ lexStatus = "returned" => lexerOut.lexerError # "NONE"

\* C17: a ":" that is not followed by "=" sets the invalid-symbol error, so
\* that the lexer stops there.
C17_LoneColon ==
    ( /\ lastLexeme.start >= 0
      /\ SrcAt(lastLexeme.start) = ":"
      /\ SrcAt(lastLexeme.start + 1) # "=" )
    => FailedWith("INV_SYM")

\* C18: a run that starts with a digit and has a letter in it sets
\* NONLETTER_VAR_INITIAL, of whatever length it is and wherever the letter
\* is; NUM_TOO_LONG is set only for runs of digits alone.
C18_DigitRunWithLetter ==
    /\ ( /\ lastLexeme.start >= 0
         /\ isdigit(SrcAt(lastLexeme.start))
         /\ FirstAlpha(lastLexeme.start, LastRun) # 0 )
       => FailedWith("NONLETTER_VAR_INITIAL")
    /\ lexerState.lexerError = "NUM_TOO_LONG"
       => /\ isdigit(SrcAt(lastLexeme.start))
          /\ FirstAlpha(lastLexeme.start, LastRun) = 0

\* C19: a run of digits alone becomes one number token with all its digits
\* if it has 1 to 5 digits; if it has 6 or more the lexer sets NUM_TOO_LONG and
\* adds no token.
C19_DigitLexeme ==
    ( /\ lastLexeme.start >= 0
      /\ isdigit(SrcAt(lastLexeme.start))
      /\ FirstAlpha(lastLexeme.start, LastRun) = 0 )
    => IF LastRun <= 5
       THEN EmittedOne(Number(LastRunText))
       ELSE FailedWith("NUM_TOO_LONG")

\* The number of newlines among the first i characters of the source.
NewlinesBefore(i) == Cardinality({k \in 1..i : sourceCode[k] = "\n"})

\* C20: when lexicalAnalyzer() returns an error, errorLine is the number of
\* newlines in the source before the lexeme in error, those inside comments
\* included.
C20_ErrorLine ==
    (lexStatus = "returned" /\ lexerOut.lexerError # "NONE")
        => lexerOut.errorLine = NewlinesBefore(lastLexeme.start)

\* C21: the lexeme that sets a lexical error adds no token; a lexeme that
\* sets none leaves the tokens before it as they were and adds at most one,
\* spelled as the source is where the lexeme stands; and lexicalAnalyzer()
\* returns the error with the token list as it stood when the error was set.
C21_TokensKeptOnError ==
    [][ /\ ( /\ lexStatus = "running"
             /\ lexStatus' = "running"
             /\ lexerState'.lexerError # "NONE" )
           => /\ lexerState'.tokenList = lexerState.tokenList
              /\ Len(lexerState'.tokenList) = lastLexeme'.tokens
        /\ ( /\ lexStatus = "running"
             /\ lexStatus' = "running"
             /\ lexerState'.lexerError = "NONE" )
           => \/ lexerState'.tokenList = lexerState.tokenList
              \/ /\ Len(lexerState'.tokenList) = Len(lexerState.tokenList) + 1
                 /\ SubSeq(lexerState'.tokenList, 1, Len(lexerState.tokenList))
                       = lexerState.tokenList
                 /\ lexerState'.tokenList[Len(lexerState'.tokenList)].lexeme
                       = SubSeq(sourceCode, lastLexeme'.start + 1,
                                lexerState'.charInd)
        /\ lexStatus' = "returned"
           => /\ lexerOut'.lexerError = lexerState.lexerError
              /\ lexerOut'.tokenList = lexerState.tokenList ]_vars

\* lexicalAnalyzer() has returned an error for a lexeme that has tokens
\* before it and source text after it.
C21_Reached ==
    /\ lexStatus = "returned"
    /\ lexerOut.lexerError # "NONE"
    /\ Len(lexerOut.tokenList) >= 1
    /\ Len(lexerOut.tokenList) = lastLexeme.tokens
    /\ lexerState.charInd < Len(sourceCode)

\* C22: lexicalAnalyzer() never moves charInd past the terminating NUL of the
\* source and never reads beyond it, so that its loop ends at the end of the
\* source or at the first error.
C22_LexerStaysInSource ==
    /\ lexerState.charInd <= Len(sourceCode)
    /\ ~overread
    /\ lexStatus # "overrun"

\* C23: for a sequence of tokens of the token model, lexing its lexemes
\* written with single spaces between them returns no error and the same
\* sequence of tokens.
C23_LexUnlex ==
    \A ts \in TokenSeqs :
        sourceCode = Unlex(ts) =>
            /\ lexStatus \in {"off", "running", "returned"}
            /\ lexStatus = "returned"
                  => lexerOut = [lexerError |-> "NONE", errorLine |-> -1,
                                 tokenList |-> ts]

\* The last instruction executed was DIV or MOD with RF[m] = 0.
DividedByZero ==
    /\ lastIns.index >= 0
    /\ lastIns.ins.op \in {DIV, MOD}
    /\ InRegs(lastIns.ins.m)
    /\ lastIns.vm.RF[lastIns.ins.m] = 0

\* C24: when DIV or MOD is executed with RF[m] = 0, executeInstruction
\* returns HALT for it, so that the loop ends there, and the instruction has
\* changed no register.
C24_DivisionByZeroHalts ==
    DividedByZero => (vmStatus = "halted" /\ vm.RF = lastIns.vm.RF)

\* The last instruction executed was a LOD or a STO of its own frame
\* (l = 0) whose cell, stack[BP + m], lies outside the stack.
AccessedOutsideStack ==
    /\ lastIns.index >= 0
    /\ lastIns.ins.op \in {LOD, STO}
    /\ lastIns.ins.l = 0
    /\ ~InStack(lastIns.vm.BP + lastIns.ins.m)

\* C25: on every code file the VM fetches only at indices in
\* 0..numOfIns-1 and accesses only stack cells in 0..MAX_STACK_HEIGHT-1: it
\* is never about to fetch outside the code, no instruction fetched came
\* from outside it, and no LOD or STO was executed on a cell outside the
\* stack, the VM having halted instead.
C25_VMMemorySafe ==
    /\ vmStatus = "run" => vm.PC \in 0..(numOfIns - 1)
    /\ lastIns.index >= 0 => lastIns.index \in 0..(numOfIns - 1)
    /\ ~AccessedOutsideStack

\* The opcodes of executeInstruction() other than SIO_HALT.
ContOpcodes == (LIT..GEQ) \ {SIO_HALT}

\* C26: the fetch-execute loop is left exactly on SIO_HALT or on an opcode
\* outside 1..24: an iteration after which the loop goes on executed an
\* opcode of 1..10 or 12..24, an iteration after which it is left executed
\* none of these, and once HALT was returned nothing more is fetched or
\* executed.
C26_LoopStopsOnHalt ==
    [][ /\ (vmStatus = "run" /\ vmStatus' = "halted")
            => lastIns'.ins.op \notin ContOpcodes
        /\ (vmStatus = "run" /\ vmStatus' = "run")
            => lastIns'.ins.op \in ContOpcodes
        /\ vmStatus = "halted" => UNCHANGED vmVars ]_vars

\* An opcode outside 1..24 ended a loop that two instructions of 1..24
\* had not ended.
C26_Reached ==
    /\ vmStatus = "halted"
    /\ vmSteps = 3
    /\ lastIns.index = 2
    /\ lastIns.ins.op \notin LIT..GEQ

\* statement() has returned 0 from an assignment, whose STO is then the
\* last instruction it emitted.
AssignmentDone ==
    /\ cgStatus \in {"running", "returned"}
    /\ lastRet.fn = "statement"
    /\ lastRet.err = 0
    /\ tokenList[lastRet.tokIn + 1].id = "identsym"

\* The process died in the lookup that statement() makes for the STO.
AssignmentFaulted ==
    /\ cgStatus = "crashed"
    /\ callStack # <<>>
    /\ Top(Cur).fn = "statement"
    /\ Top(Cur).pc = "afterAssignExpr"

\* The symbols that bear the name of the identifier assigned to.
AssignedSymbols ==
    {i \in 1..Len(symbolTable) :
        symbolTable[i].name = tokenList[lastRet.tokIn + 1].lexeme}

\* C27: the STO emitted for "ident := expr" has l = currentLevel - level
\* (never below 0) and m = address of the symbol named by the identifier on
\* the left: the lookup is made on the assigned identifier, and so succeeds.
C27_StoreTargetsAssigned ==
    /\ ~AssignmentFaulted
    /\ AssignmentDone =>
          \E i \in AssignedSymbols :
              LET ins == vmCode[lastRet.codeOut]
                  d == currentLevel - symbolTable[i].level
              IN  /\ ins.op = STO
                  /\ ins.l = IF d < 0 THEN 0 ELSE d
                  /\ ins.m = symbolTable[i].address

\* C28: an ADD, SUB, MUL or DIV emitted for "a op b" has r = k, l = k and
\* m = k + 1, where k and k + 1 are the registers a's and b's code left
\* their values in, and currentReg is k + 1 once it is emitted.  (Stated for
\* a right operand that is a number or an identifier: its value is in the
\* register its LIT or LOD, the instruction before the operation, names.)
C28_BinaryRegisters ==
    \A i \in 2..nextCodeIndex :
        ( /\ vmCode[i].op \in {ADD, SUB, MUL, DIV}
          /\ vmCode[i - 1].op \in {LIT, LOD} )
        => LET k == vmCode[i - 1].r - 1
           IN  /\ vmCode[i].r = k
               /\ vmCode[i].l = k
               /\ vmCode[i].m = k + 1
               /\ (i = nextCodeIndex /\ cgStatus = "running")
                     => currentReg = k + 1

\* The comparison opcodes of the relational operators.
RelOpcodes == {EQL, NEQ, LSS, LEQ, GTR, GEQ}

\* C29: for a condition "e1 relop e2" the comparison is emitted after the
\* code of e1 and of e2, so that it is the instruction just before the JPC
\* of the if or while, and that JPC tests the register the comparison
\* wrote.  (A JPC not preceded by ODD belongs to a relational condition.)
C29_CompareThenJump ==
    \A j \in 2..nextCodeIndex :
        (vmCode[j].op = JPC /\ vmCode[j - 1].op # ODD)
        => /\ vmCode[j - 1].op \in RelOpcodes
           /\ vmCode[j].r = vmCode[j - 1].r

\* statement() has returned 0 from a "call", whose CAL is then the last
\* instruction it emitted.
CallDone ==
    /\ cgStatus \in {"running", "returned"}
    /\ lastRet.fn = "statement"
    /\ lastRet.err = 0
    /\ tokenList[lastRet.tokIn + 1].id = "callsym"

\* The procedures that bear the name of the identifier called.
CalledSymbols ==
    {i \in 1..Len(symbolTable) :
        /\ symbolTable[i].type = "PROC"
        /\ symbolTable[i].name = tokenList[lastRet.tokIn + 2].lexeme}

\* C30: the instruction emitted for "call p" is (CAL, 0, dL, addr) with
\* dL = currentLevel - the level p was declared at and addr = the index of
\* the first instruction of p's body, the one after the JMP emitted at p's
\* declaration, which is also the address p's symbol holds.
C30_CallTarget ==
    CallDone =>
        \E i \in CalledSymbols :
            LET ins == vmCode[lastRet.codeOut]
            IN  /\ ins.op = CAL
                /\ ins.r = 0
                /\ ins.l = currentLevel - symbolTable[i].level
                /\ ins.m = symbolTable[i].address
                /\ ins.m \in 1..(nextCodeIndex - 1)
                /\ vmCode[ins.m].op = JMP

\* The VAR symbols declared in the block of symbol i, up to and including
\* symbol i itself: their number is i's rank among that block's variables.
VarsUpTo(i) ==
    {j \in 1..i :
        /\ symbolTable[j].type = "VAR"
        /\ symbolTable[j].declBlock = symbolTable[i].declBlock}

\* C31: every VAR symbol in the table has an address, set when it was
\* added: the k-th variable declared in a block has address 3 + k (so that
\* two variables of a block never share one).
C31_VarAddresses ==
    \A i \in 1..Len(symbolTable) :
        symbolTable[i].type = "VAR"
            => symbolTable[i].address = 3 + Cardinality(VarsUpTo(i))

\* Code indices (from 0) of the body that the JMP at index j skips: the
\* instructions after it, up to its target.
ProcBody(j) == (j + 1)..(vmCode[j + 1].m - 1)

\* The code indices control reaches from index 0 without a call.
Entered == FlowReach({0})

\* C32: proc_declaration() patches the JMP it emitted before the body to the
\* index of the first instruction that comes after the body, whatever the
\* body holds (nested procedures included), and the patched target stays;
\* the JMP is followed by INC 0 0 4.  Hence in the code of an accepted
\* program control that starts at 0 and makes no call reaches no index of a
\* procedure body.
C32_ProcJumpSkipsBody ==
    [][ /\ ( /\ At("proc_declaration", "afterBlock")
             /\ err = 0
             /\ cgStatus' = "running"
             /\ callStack' # callStack )
           => LET ref == Top(Cur).jumpRef
              IN  /\ vmCode[ref + 1].op = JMP
                  /\ vmCode[ref + 2] = [op |-> INC, r |-> 0, l |-> 0, m |-> 4]
                  /\ vmCode'[ref + 1] = [op |-> JMP, r |-> 0, l |-> 0,
                                         m |-> nextCodeIndex]
        /\ \A j \in 1..nextCodeIndex :
              (vmCode[j].op = JMP /\ vmCode[j].m # 0) => vmCode'[j] = vmCode[j]
        /\ (cgStatus' = "returned" /\ cgErr' = 0)
           => \A j \in 0..(nextCodeIndex' - 1) :
                 vmCode'[j + 1].op = JMP
                    => /\ vmCode'[j + 1].m \in (j + 2)..nextCodeIndex'
                       /\ vmCode'[j + 2] = [op |-> INC, r |-> 0, l |-> 0, m |-> 4]
                       /\ (ProcBody(j) \cap Entered)' = {} ]_vars

\* An accepted program with a procedure declared inside another: the inner
\* JMP and its target lie within the body the outer JMP skips.
C32_Reached ==
    /\ Accepted
    /\ \E i \in 0..(nextCodeIndex - 1), j \in 0..(nextCodeIndex - 1) :
          /\ vmCode[i + 1].op = JMP
          /\ vmCode[j + 1].op = JMP
          /\ i < j
          /\ vmCode[j + 1].m <= vmCode[i + 1].m
          /\ vmCode[j + 1].m > j + 2

\* statement() has returned 0 from an "if".
IfDone ==
    /\ cgStatus \in {"running", "returned"}
    /\ lastRet.fn = "statement"
    /\ lastRet.err = 0
    /\ lastRet.thenEnd >= 0

\* C33: when statement() returns from "if cond then S1 [else S2]", the m of
\* the JPC it emitted after the condition is the index of the instruction
\* that follows the code of S1, with or without an else part.
C33_IfJumpsPastThen ==
    IfDone =>
        /\ vmCode[lastRet.jpcRef + 1].op = JPC
        /\ vmCode[lastRet.jpcRef + 1].m = lastRet.thenEnd

\* C34: in an accepted program the r field of every instruction emitted is
\* a register, 0..15, and so is currentReg when the generator returns: no
\* statement has driven it below 0 and no expression above 15.
C34_RegistersInRange ==
    Accepted =>
        /\ InRegs(currentReg)
        /\ \A i \in 1..nextCodeIndex : InRegs(vmCode[i].r)

\* The code generator is where it patches a jump: after the body of a
\* procedure, or after a part of an if or the body of a while.
AtPatchOf(op) ==
    IF op = JMP THEN At("proc_declaration", "afterBlock")
    ELSE \/ At("statement", "afterThen")
         \/ At("statement", "afterElse")
         \/ At("statement", "afterWhileBody")

\* C35: the code array only grows at its end, one index after the other,
\* and an instruction that is in it keeps its index, op, r and l; its m is
\* rewritten only if it is a JMP, patched by proc_declaration(), or a JPC,
\* patched by the if or while of statement(), and only while it is still
\* the placeholder 0, which the patch replaces by another value: at most
\* once.
C35_CodeImmutable ==
    [][ /\ nextCodeIndex' >= nextCodeIndex
        /\ Len(vmCode') = nextCodeIndex'
        /\ \A i \in 1..nextCodeIndex :
              /\ vmCode'[i].op = vmCode[i].op
              /\ vmCode'[i].r = vmCode[i].r
              /\ vmCode'[i].l = vmCode[i].l
              /\ vmCode'[i].m # vmCode[i].m
                    => /\ vmCode[i].op \in {JMP, JPC}
                       /\ AtPatchOf(vmCode[i].op)
                       /\ vmCode[i].m = 0
                       /\ vmCode'[i].m # 0 ]_vars

\* The generator is at work on code in which a JMP and a JPC have been
\* patched and more has been emitted since.
C35_Reached ==
    /\ cgStatus = "running"
    /\ \E i \in 1..nextCodeIndex, j \in 1..nextCodeIndex :
          /\ vmCode[i].op = JMP /\ vmCode[i].m # 0
          /\ vmCode[j].op = JPC /\ vmCode[j].m # 0
          /\ vmCode[j].m < nextCodeIndex

\* The last instruction executed was op, on a register of the file, and
\* the machine survived it.
Executed(ops) ==
    /\ lastIns.index >= 0
    /\ lastIns.ins.op \in ops
    /\ InRegs(lastIns.ins.r)
    /\ vmStatus \in {"run", "halted"}

\* C36: after ODD, RF[r] is 1 if RF[r] was odd and 0 if it was even,
\* negative values included; and after each of the six comparisons RF[r] is
\* 0 or 1.
C36_OddFlag ==
    /\ Executed({ODD}) =>
          vm.RF[lastIns.ins.r] = lastIns.vm.RF[lastIns.ins.r] % 2
    /\ Executed(EQL..GEQ) => vm.RF[lastIns.ins.r] \in {0, 1}

\* The last instruction executed was a RTN in the frame of the latest open
\* call, made at SP = s, BP = b, PC = p, and the cells s+3 and s+4 of the
\* stack still held what that CAL had stored there.
ReturnedFrom(f) ==
    /\ lastIns.index >= 0
    /\ lastIns.ins.op = RTN
    /\ lastIns.frames # <<>>
    /\ f = lastIns.frames[Len(lastIns.frames)]
    /\ lastIns.vm.BP = f.s + 1
    /\ InStack(f.s + 3) /\ InStack(f.s + 4)
    /\ StackGet(lastIns.vm.stack, f.s + 3) = f.b
    /\ StackGet(lastIns.vm.stack, f.s + 4) = f.p

\* C37: a RTN executed in the frame of a CAL whose cells s+3 and s+4 are
\* intact restores the SP, the BP and the PC of that CAL, at any depth of
\* calls.
C37_CallReturn ==
    \A f \in {lastIns.frames[i] : i \in 1..Len(lastIns.frames)} :
        ReturnedFrom(f) => (vm.SP = f.s /\ vm.BP = f.b /\ vm.PC = f.p)

\* The RTN of a call made inside another call has been executed in its
\* intact frame.
C37_Reached ==
    /\ Len(lastIns.frames) = 2
    /\ ReturnedFrom(lastIns.frames[2])
    /\ vmStatus = "run"

\* The machine the last instruction was executed on: the one it was fetched
\* on, with the PC incremented by the fetch.
Fetched == [lastIns.vm EXCEPT !.PC = AddWrap(@, 1)]

\* The opcodes whose table entry names RF[r] alone.
RegisterOpcodes ==
    {LIT, LOD, NEG, ADD, SUB, MUL, DIV, ODD, MOD} \cup (EQL..GEQ)

\* The stack cells in which two machines differ.
CellsChanged(v, w) ==
    {i \in DOMAIN v.stack \cup DOMAIN w.stack :
        StackGet(v.stack, i) # StackGet(w.stack, i)}

C39_SameGrammar ==
    (tokenList \in StatementPrograms /\ cgStatus \notin {"idle", "running"})
        => /\ cgStatus = "returned"
           /\ cgErr = parErr
           /\ lastRet.fn = "program"
           /\ lastRet.tokOut = parTok

=============================================================================
